---- MODULE Spec2Model ----
(***************************************************************************)
(* Long-polling backend (Express, in-memory) and its React client.        *)
(*                                                                         *)
(* Time is counted in seconds: `now` is the reading of Date.now(), the     *)
(* emitter's delay and the 30 s request timeout are timers of the event    *)
(* loop, and each handler (route handler, timer callback, 'close'          *)
(* listener) runs to completion as one step.                               *)
(***************************************************************************)
EXTENDS Integers, Sequences, FiniteSets, TLC

\* ------------------------------------------------------------- bounds
\* Requests ever received by GET /status.
MaxReqs == 2
\* Largest score a resource is let to reach.
MaxScore == 1
\* Last clock reading the model follows.
MaxTime == 31

\* ---------------------------------------------------------- constants
\* setTimeout(..., 30 * 1000) of the deferred path.
TimeoutSec == 30
\* Math.floor(Math.random() * 32): the emitter's delay is 0..31 seconds.
EmitterRange == 32
\* Math.floor(Math.random() * 10): the score grows by 0..9.
ScoreRange == 10

\* The resources mimicEvents creates (the code creates five, EVENT#00..04).
Events == {"EVENT#00", "EVENT#01"}
\* An eventId that is no key of db and no property an object inherits.
UnknownIds == {"EVENT#99"}
\* Property names every object literal inherits from Object.prototype:
\* db[eventId] is truthy for them although mimicEvents never set them.
InheritedKeys == {"constructor"}
\* The eventId query parameter left out.
NoEventId == "<undefined>"

\* Emitter delays the model draws (seconds): none, and as long as the timeout.
Delays == {d \in 0..(EmitterRange - 1) : d \in {0, TimeoutSec}}
\* Score increments the model draws.
ScoreIncs == {i \in 0..(ScoreRange - 1) : i <= 1}

ReqIds == 1..MaxReqs

\* A last_updated query value: numeric text, other text, or left out.
Num(n) == [kind |-> "num", val |-> n]
NotNumeric == [kind |-> "nan", val |-> 0]
NoLastUpdated == [kind |-> "undef", val |-> 0]

VARIABLES
  now,        \* Date.now(), in seconds
  alive,      \* the server process runs (no uncaught exception yet)
  db,         \* db[eventId] = {score, updatedAt}
  emitterDue, \* expiry of startEmitter's pending timer, per resource
  eventReqs,  \* eventReqs: Map<eventId, Set<requestObj>>
  req,        \* the requests received: query, response, timer, and the
              \* callback that last settled the wait (state)
  nextReq,    \* the next request's id
  clientSeen  \* the React client's last received item, per resource

vars == <<now, alive, db, emitterDue, eventReqs, req, nextReq, clientSeen>>

\* The rate-limiting backend (a separate server): its clock and, per
\* limiter, the Map of per-client state and the outcome of the client's
\* last check.
VARIABLES
  clock,      \* Date.now() of the rate-limiting server, in milliseconds
  buckets,    \* tokenBucket.js: buckets, Map<clientId, TokenBucket>
  tbLast      \* per client: its checks so far and the last one's result

tbvars == <<buckets, tbLast>>

VARIABLES
  windows,    \* fixedWindow.js: windows, Map<clientId, FixedWindow>
  fwLast      \* per client: its checks so far and the last one's result

fwvars == <<windows, fwLast>>

VARIABLES
  swWindows,  \* slidingWindow.js: windows, Map<clientId, SlidingWindow>
  swLast      \* per client: its checks so far and the last one's result

swvars == <<swWindows, swLast>>

VARIABLES
  drAvail,    \* distributedRedis.js: isRedisAvailable
  drStore,    \* Redis: the sorted set ratelimit:<clientId> and its expiry
  drReq,      \* the request the middleware is working on, if any
  drLast      \* per client: its checks so far and the last one's result

drvars == <<drAvail, drStore, drReq, drLast>>

\* The long-polling React client (App.jsx), per event id.
VARIABLES
  isPolling,         \* isPolling.current
  abortControllers,  \* abortControllers.current: the call of startLongPoll
                     \* whose fetch the stored controller belongs to, or 0
  polls,             \* the calls of startLongPoll that have not returned:
                     \* where each of them stands
  activeConnections  \* stats.activeConnections

lcvars == <<isPolling, abortControllers, polls, activeConnections>>

VARIABLES
  sseOpen,     \* SSE backend: the GET /events connections that are open
  sseClients,  \* clients: the responses in the Set
  sseStreams,  \* what was written to each response, by event type
  sseRequests, \* eventStreams.metrics.requests
  sseTrigger   \* the POST /trigger-notification requests and the last answer

ssevars == <<sseOpen, sseClients, sseStreams, sseRequests, sseTrigger>>

VARIABLES
  psClock,     \* publisher: time in seconds
  psReady,     \* the Redis client is ready
  psChains,    \* the calls of messagePublisher that are under way or due
  psPublished  \* messages published

psvars == <<psClock, psReady, psChains, psPublished>>

VARIABLES
  spClock,     \* short polling backend: Date.now(), in seconds
  items,       \* db
  next_id,     \* next_id
  spTimers,    \* the pending setTimeout of each item: its expiry
  spLast       \* the last response of POST /items or GET /items/:id/status

spvars == <<spClock, items, next_id, spTimers, spLast>>

xvars == <<ssevars, psvars, spvars>>

\* The rate-limiting server's variables, and all variables.
rlvars == <<clock, tbvars, fwvars, swvars, drvars>>
allvars == <<vars, rlvars, lcvars, xvars>>

\* The SSE backend, the publisher and the short polling backend do not run.
SSEOff ==
  /\ sseOpen = {}
  /\ sseClients = {}
  /\ sseStreams = <<>>
  /\ sseRequests = 0
  /\ sseTrigger = <<>>

PSOff ==
  /\ psClock = 0
  /\ psReady = FALSE
  /\ psChains = <<>>
  /\ psPublished = 0

SPOff ==
  /\ spClock = 0
  /\ items = <<>>
  /\ next_id = 0
  /\ spTimers = <<>>
  /\ spLast = <<>>

XOff == SSEOff /\ PSOff /\ SPOff

\* No page of the client is open.
LCOff ==
  /\ isPolling = <<>>
  /\ abortControllers = <<>>
  /\ polls = <<>>
  /\ activeConnections = 0

\* A limiter that receives no request.
TBOff ==
  /\ buckets = <<>>
  /\ tbLast = <<>>

FWOff ==
  /\ windows = <<>>
  /\ fwLast = <<>>

SWOff ==
  /\ swWindows = <<>>
  /\ swLast = <<>>

DROff ==
  /\ drAvail = FALSE
  /\ drStore = <<>>
  /\ drReq = <<>>
  /\ drLast = <<>>

\* The rate-limiting server is not running.
RLOff ==
  /\ clock = 0
  /\ TBOff
  /\ FWOff
  /\ SWOff
  /\ DROff

\* A request slot no request used yet.
NoReq ==
  [state |-> "unused", eventId |-> NoEventId, lu |-> NoLastUpdated,
   byClient |-> FALSE, timer |-> "none", deadline |-> 0, sent |-> <<>>]

\* res.status(code).json(body), body.data.item serialised as it is now.
Response(code, message, item) ==
  [status |-> code, message |-> message, score |-> item.score,
   updatedAt |-> item.updatedAt]
NoItem == [score |-> -1, updatedAt |-> -1]

\* res.headersSent
HeadersSent(r) == req[r].sent # <<>>

\* db[eventId]: an item, an inherited property (truthy, no updatedAt), or undefined.
DbLookup(eventId) ==
  IF eventId \in Events THEN "item"
  ELSE IF eventId \in InheritedKeys THEN "inherited"
  ELSE "undefined"

\* Faulty variant: the comparison the wrong way round.
UpdatedSinceReversed(eventId, lu) ==
  /\ DbLookup(eventId) = "item"
  /\ lu.kind = "num"
  /\ db[eventId].updatedAt < lu.val

\* db[eventId].updatedAt > last_updated, the query string converted by
\* ToNumber: a comparison with NaN (or with undefined) is false.
UpdatedSince(eventId, lu) ==
  /\ DbLookup(eventId) = "item"
  /\ lu.kind = "num"
  /\ db[eventId].updatedAt > lu.val

Init ==
  /\ RLOff
  /\ LCOff
  /\ XOff
  /\ now = 1
  /\ alive = TRUE
  /\ db = [e \in Events |-> [score |-> 0, updatedAt |-> 1]]
  /\ emitterDue \in [Events -> {1 + d : d \in Delays}]
  /\ eventReqs = [e \in Events |-> {}]
  /\ req = [r \in ReqIds |-> NoReq]
  /\ nextReq = 1
  /\ clientSeen = [e \in Events |-> [score |-> 0, updatedAt |-> 0]]

\* ------------------------------------------------------ GET /status
\* The branch the route handler takes.
StatusPath(eventId, lu) ==
  IF eventId = NoEventId \/ lu.kind = "undef" THEN "missing"
  ELSE IF DbLookup(eventId) = "undefined" THEN "notfound"
  ELSE IF UpdatedSince(eventId, lu) THEN "immediate"
  ELSE IF DbLookup(eventId) = "item" THEN "deferred"
  ELSE "threw"

\* The timer the handler leaves behind: the deferred path's setTimeout runs
\* before pendingReqs.add, also when pendingReqs is undefined and add throws.
StatusTimer(path) ==
  IF path \in {"deferred", "threw"} THEN "pending" ELSE "none"

\* What the handler writes before it returns (nothing on the deferred path).
StatusResponse(path, eventId) ==
  CASE path = "missing" ->
         <<Response(500, "eventId and last_updated are required", NoItem)>>
    [] path = "notfound" -> <<Response(404, "Event not found", NoItem)>>
    [] path = "immediate" ->
         <<Response(200, "Data fetched successfully", db[eventId])>>
    [] path = "threw" ->
         <<Response(500, "Error while fetching event status", NoItem)>>
    [] OTHER -> <<>>

\* The React client stores the item of a successful response.
ClientReceive(seen, byClient, sent) ==
  IF byClient /\ sent # <<>> /\ sent[1].status = 200
  THEN [score |-> sent[1].score, updatedAt |-> sent[1].updatedAt]
  ELSE seen

\* The route handler, from the query to its return. Bounds: MaxReqs requests
\* in all, each received while its 30 s deadline is within MaxTime.
Status(eventId, lu, byClient) ==
  LET r == nextReq
      path == StatusPath(eventId, lu)
      sent == StatusResponse(path, eventId)
  IN  /\ alive
      /\ nextReq <= MaxReqs
      /\ now + TimeoutSec <= MaxTime
      /\ req' = [req EXCEPT ![r] =
           [state |-> IF path = "deferred" THEN "REGISTERED" ELSE "ANSWERED",
            eventId |-> eventId, lu |-> lu, byClient |-> byClient,
            timer |-> StatusTimer(path),
            deadline |-> IF StatusTimer(path) = "pending"
                         THEN now + TimeoutSec ELSE 0,
            sent |-> sent]]
      /\ eventReqs' = IF path = "deferred"
                      THEN [eventReqs EXCEPT ![eventId] = @ \cup {r}]
                      ELSE eventReqs
      /\ clientSeen' = IF eventId \in Events
                       THEN [clientSeen EXCEPT ![eventId] =
                              ClientReceive(@, byClient, sent)]
                       ELSE clientSeen
      /\ nextReq' = nextReq + 1
      /\ UNCHANGED <<now, alive, db, emitterDue, rlvars, lcvars, xvars>>

\* Query strings of requests that do not come from the React client: a
\* timestamp that is not behind the resource (the clock's reading), text that
\* is no number, last_updated or eventId left out, an eventId that names no
\* resource. (A timestamp that is behind is the React client's first poll.)
RawInputs ==
  (Events \X {Num(now)})
    \cup ({"EVENT#00"} \X {NotNumeric, NoLastUpdated})
    \cup ((UnknownIds \cup InheritedKeys \cup {NoEventId}) \X {Num(0)})

\* Any HTTP client.
RawRequest == \E q \in RawInputs : Status(q[1], q[2], FALSE)

\* startLongPoll: one request per event at a time, last_updated the
\* updatedAt of the last item received (0 at first).
ClientPoll(e) ==
  /\ \A r \in ReqIds : ~(req[r].byClient /\ req[r].eventId = e
                          /\ req[r].state = "REGISTERED")
  /\ Status(e, Num(clientSeen[e].updatedAt), TRUE)

\* ------------------------------------------------- startEmitter's timer
\* Faulty variant: the notify loop leaves the wait's timeout pending.
SweepTimerKept(t) == t

\* clearTimeout(timeoutId) of the notify loop.
SweepTimer(t) == IF t = "pending" THEN "cleared" ELSE t

\* Faulty variant: the notify loop does not clear the waiter set.
SweepLeavesAll(e) == eventReqs[e]

\* pendingReqs.clear()
SweepLeaves(e) == {}

\* if (!res.headersSent) res.status(200).json({... item: db[eventId]})
SweepSend(r, item) ==
  IF HeadersSent(r) THEN req[r].sent
  ELSE Append(req[r].sent, Response(200, "Data fetched successfully", item))

\* db[eventId].score += score; db[eventId].updatedAt = Date.now()
Mutated(e, inc) == [score |-> db[e].score + inc, updatedAt |-> now]

\* Faulty variant: the notify loop runs over the waits of every resource.
PendingReqsOfAll(e) == UNION {eventReqs[x] : x \in Events}

\* let pendingReqs = eventReqs.get(eventId)
PendingReqs(e) == eventReqs[e]

EmitterFire(e, inc, delay) ==
  LET item == Mutated(e, inc)
      pendingReqs == PendingReqs(e)
  IN  /\ alive
      /\ emitterDue[e] <= now
      /\ item.score <= MaxScore
      /\ db' = [db EXCEPT ![e] = item]
      /\ req' = [r \in ReqIds |->
           IF r \in pendingReqs
           THEN [req[r] EXCEPT !.timer = SweepTimer(@),
                               !.sent = SweepSend(r, item),
                               !.state = "RESOLVED_BY_DATA"]
           ELSE req[r]]
      /\ eventReqs' = [eventReqs EXCEPT ![e] =
                        IF pendingReqs # {} THEN SweepLeaves(e) ELSE @]
      /\ clientSeen' = [clientSeen EXCEPT ![e] =
           IF \E r \in pendingReqs : req[r].byClient
           THEN LET r == CHOOSE q \in pendingReqs : req[q].byClient
                IN  ClientReceive(@, TRUE, SweepSend(r, item))
           ELSE @]
      /\ emitterDue' = [emitterDue EXCEPT ![e] = now + delay]
      /\ UNCHANGED <<now, alive, nextReq, rlvars, lcvars, xvars>>

\* ------------------------------------------------ the 30 s timeout
\* Faulty variant: the timeout callback leaves the wait in the set.
TimeoutLeavesAll(e, r) == eventReqs[e]

\* reqs.delete(requestObj)
TimeoutLeaves(e, r) == eventReqs[e] \ {r}

\* if (!res.headersSent) res.status(408).json(...)
TimeoutSend(r) ==
  IF HeadersSent(r) THEN req[r].sent
  ELSE Append(req[r].sent, Response(408, "Request timed out", NoItem))

TimeoutFire(r) ==
  LET e == req[r].eventId
  IN  /\ alive
      /\ req[r].timer = "pending"
      /\ req[r].deadline <= now
      /\ e \in Events
      /\ eventReqs' = [eventReqs EXCEPT ![e] = TimeoutLeaves(e, r)]
      /\ req' = [req EXCEPT ![r].timer = "fired",
                            ![r].sent = TimeoutSend(r),
                            ![r].state = "RESOLVED_BY_TIMEOUT"]
      /\ UNCHANGED <<now, alive, db, emitterDue, nextReq, clientSeen, rlvars, lcvars, xvars>>

\* The timer of a request whose eventId has no waiter set: eventReqs.get
\* returns undefined, reqs.delete throws in the timer callback, and the
\* uncaught exception ends the process.
TimeoutThrows(r) ==
  LET e == req[r].eventId
  IN  /\ alive
      /\ req[r].timer = "pending"
      /\ req[r].deadline <= now
      /\ e \notin Events
      /\ alive' = FALSE
      /\ req' = [req EXCEPT ![r].timer = "fired"]
      /\ UNCHANGED <<now, db, emitterDue, eventReqs, nextReq, clientSeen, rlvars, lcvars, xvars>>

\* ------------------------------------------------- req.on('close')
\* Faulty variant: the 'close' listener does not clear the timeout.
CloseTimerKept(t) == t

\* clearTimeout(timeoutId)
CloseTimer(t) == IF t = "pending" THEN "cleared" ELSE t

\* reqs.delete(requestObj)
CloseLeaves(e, r) == eventReqs[e] \ {r}

\* req.on('close', ...) is reached on the deferred path only. 'close' comes
\* when the client aborts and also after a response has ended; the listener
\* changes nothing once the wait has left the set, so the model does not
\* record that it ran. A wait counts as cancelled when the listener found it
\* in the set or its timer pending.
CloseListener(r) == req[r].state \notin {"unused", "ANSWERED"}

Close(r) ==
  LET e == req[r].eventId
  IN  /\ alive
      /\ CloseListener(r)
      /\ eventReqs' = [eventReqs EXCEPT ![e] = CloseLeaves(e, r)]
      /\ req' = [req EXCEPT ![r].timer = CloseTimer(@),
                            ![r].state =
                               IF r \in eventReqs[e] \/ req[r].timer = "pending"
                               THEN "CANCELLED" ELSE @]
      /\ UNCHANGED <<now, alive, db, emitterDue, nextReq, clientSeen, rlvars, lcvars, xvars>>

\* ------------------------------------------------------- the clock
\* Expiry times of the timers that are pending.
PendingDues ==
  {emitterDue[e] : e \in Events}
    \cup {req[r].deadline : r \in {q \in ReqIds : req[q].timer = "pending"}}

NextDue == CHOOSE t \in PendingDues : \A u \in PendingDues : t <= u

\* Time passes until the next timer expires; a timer that has expired runs
\* before the clock is read again.
Tick ==
  /\ alive
  /\ NextDue > now
  /\ NextDue <= MaxTime
  /\ now' = NextDue
  /\ UNCHANGED <<alive, db, emitterDue, eventReqs, req, nextReq, clientSeen, rlvars, lcvars, xvars>>

Next ==
  \/ RawRequest
  \/ \E e \in Events : ClientPoll(e)
  \/ \E e \in Events, inc \in ScoreIncs, delay \in Delays :
       EmitterFire(e, inc, delay)
  \/ \E r \in ReqIds : TimeoutFire(r)
  \/ \E r \in ReqIds : TimeoutThrows(r)
  \/ \E r \in ReqIds : Close(r)
  \/ Tick

\* =========================================================== rate limiting
\* ------------------------------------------------------------- bounds
\* Checks a client makes of one limiter.
MaxCalls == 7
\* Last reading of the clock while the token bucket is checked (ms).
TBMaxClock == 4000

\* The clients (req.ip).
Clients == {"10.0.0.1", "10.0.0.2"}
\* How far the clock moves between two requests (ms).
ClockSteps == {500, 1000}

\* tokenBucketMiddleware(5, 1) of GET /api/token-bucket.
TBCapacity == 5
TBRefillRate == 1

\* Math.ceil(a / b) for b > 0.
CeilDiv(a, b) == IF a % b = 0 THEN a \div b ELSE (a \div b) + 1
MinOf(a, b) == IF a <= b THEN a ELSE b
MaxOf(a, b) == IF a >= b THEN a ELSE b

\* The three headers a limiter middleware sets once it has a result.
LimitHeaders ==
  {"X-RateLimit-Limit", "X-RateLimit-Remaining", "X-RateLimit-Algorithm"}

\* What a client holds of a request that has not been made.
NoResponse ==
  [status |-> 0, next |-> 0, headers |-> {}, limit |-> 0, remaining |-> 0,
   algorithm |-> "", retryAfter |-> 0]

\* No entry in a Map.
Absent == [present |-> FALSE, tokens |-> 0, lastRefill |-> 0]

\* No check made yet.
NoCheck ==
  [n |-> 0, created |-> 0, time |-> 0, allowed |-> TRUE, remaining |-> 0,
   retryAfter |-> 0, http |-> NoResponse, admitAt |-> 0, burst |-> 0,
   due |-> 0]

\* new TokenBucket(capacity, refillRate). Tokens are kept in thousandths,
\* so that elapsed milliseconds times refillRate are whole numbers.
NewTokenBucket(t) ==
  [present |-> TRUE, tokens |-> TBCapacity * 1000, lastRefill |-> t]

\* Faulty variant: refill without the cap at capacity.
TBRefillUncapped(b, t) ==
  [b EXCEPT !.tokens = b.tokens + (t - b.lastRefill) * TBRefillRate,
            !.lastRefill = t]

\* Faulty variant: refill keeps whole tokens only.
TBRefillFloored(b, t) ==
  [b EXCEPT !.tokens = MinOf(TBCapacity * 1000,
              ((b.tokens + (t - b.lastRefill) * TBRefillRate) \div 1000) * 1000),
            !.lastRefill = t]

\* TokenBucket.refill()
TBRefill(b, t) ==
  [b EXCEPT !.tokens = MinOf(TBCapacity * 1000,
                             b.tokens + (t - b.lastRefill) * TBRefillRate),
            !.lastRefill = t]

\* Faulty variant: a consume takes half a token.
TBTakeHalf(b) ==
  IF b.tokens >= 1000 THEN [b EXCEPT !.tokens = b.tokens - 500] ELSE b

\* consume(): this.tokens -= 1 when this.tokens >= 1.
TBTake(b) == IF b.tokens >= 1000 THEN [b EXCEPT !.tokens = b.tokens - 1000] ELSE b

\* Faulty variant: the wait is computed from a whole token.
TBRetryAfterWhole(b) == CeilDiv(1000, 1000 * TBRefillRate) + 1

\* Faulty variant: the wait is given in milliseconds.
TBRetryAfterMillis(b) == CeilDiv(1000 - b.tokens, TBRefillRate)

\* Math.ceil((1 - this.tokens) / this.refillRate)
TBRetryAfter(b) == CeilDiv(1000 - b.tokens, 1000 * TBRefillRate)

\* The result consume() returns for the refilled bucket b.
TBResult(b) ==
  IF b.tokens >= 1000
  THEN [allowed |-> TRUE, remaining |-> TBTake(b).tokens \div 1000,
        retryAfter |-> 0]
  ELSE [allowed |-> FALSE, remaining |-> 0, retryAfter |-> TBRetryAfter(b)]

\* The middleware's bucket for the client, created on its first request.
TBBucketOf(c) ==
  IF buckets[c].present THEN buckets[c] ELSE NewTokenBucket(clock)

\* A middleware that calls next() whatever the result says.
TBResponseNextAlways(res) ==
  [status |-> IF res.allowed THEN 200 ELSE 429,
   next |-> 1,
   headers |-> IF res.allowed THEN LimitHeaders
               ELSE LimitHeaders \cup {"Retry-After"},
   limit |-> TBCapacity, remaining |-> res.remaining, algorithm |-> "token-bucket",
   retryAfter |-> IF res.allowed THEN 0 ELSE res.retryAfter]

\* tokenBucketMiddleware from the result on: the headers, then 429 or
\* next(), after which the route handler answers 200.
TBResponse(res) ==
  [status |-> IF res.allowed THEN 200 ELSE 429,
   next |-> IF res.allowed THEN 1 ELSE 0,
   headers |-> IF res.allowed THEN LimitHeaders
               ELSE LimitHeaders \cup {"Retry-After"},
   limit |-> TBCapacity, remaining |-> res.remaining, algorithm |-> "token-bucket",
   retryAfter |-> IF res.allowed THEN 0 ELSE res.retryAfter]

\* The earliest of the times at which the denials a client got since it
\* was last let through told it to come back; 0 when there is none. The
\* check answered at t is denied with retryAfter r, or it is not denied.
RetryDue(due, denied, t, r) ==
  IF ~denied THEN 0
  ELSE IF due = 0 THEN t + r * 1000 ELSE MinOf(due, t + r * 1000)

\* The client is let through at t. Over the stretches of time that end
\* with this request, the most by which the requests let through (in
\* thousandths) exceed what refillRate adds in the stretch.
TBBurst(l, t) ==
  MaxOf(1000, l.burst - (t - l.admitAt) * TBRefillRate + 1000)

\* tokenBucketMiddleware: GET /api/token-bucket by client c.
TBCheck(c) ==
  LET b == TBRefill(TBBucketOf(c), clock)
      res == TBResult(b)
  IN  /\ tbLast[c].n < MaxCalls
      /\ buckets' = [buckets EXCEPT ![c] = TBTake(b)]
      /\ tbLast' = [tbLast EXCEPT ![c] =
           [n |-> @.n + 1,
            created |-> IF buckets[c].present THEN @.created ELSE clock,
            time |-> clock, allowed |-> res.allowed,
            remaining |-> res.remaining, retryAfter |-> res.retryAfter,
            http |-> TBResponse(res),
            admitAt |-> IF res.allowed THEN clock ELSE @.admitAt,
            burst |-> IF res.allowed THEN TBBurst(@, clock) ELSE @.burst,
            due |-> RetryDue(@.due, ~res.allowed, clock, res.retryAfter)]]
      /\ UNCHANGED <<clock, vars, lcvars, xvars, fwvars, swvars, drvars>>

\* getTokenBucketStats: getStatus() refills every bucket there is.
TBStats ==
  /\ buckets' = [c \in Clients |->
                   IF buckets[c].present THEN TBRefill(buckets[c], clock)
                   ELSE buckets[c]]
  /\ UNCHANGED <<clock, tbLast, vars, lcvars, xvars, fwvars, swvars, drvars>>

\* Time passes between two requests.
ClockTick(d, max) ==
  /\ clock + d <= max
  /\ clock' = clock + d

TBTick ==
  /\ \E d \in ClockSteps : ClockTick(d, TBMaxClock)
  /\ UNCHANGED <<tbvars, vars, lcvars, xvars, fwvars, swvars, drvars>>

\* The token-bucket limiter before any request.
TBIdle ==
  /\ clock = 1000
  /\ buckets = [c \in Clients |-> Absent]
  /\ tbLast = [c \in Clients |-> NoCheck]

\* The long-polling server as mimicEvents leaves it, no request received.
LPIdle ==
  /\ now = 1
  /\ alive = TRUE
  /\ db = [e \in Events |-> [score |-> 0, updatedAt |-> 1]]
  /\ emitterDue = [e \in Events |-> 1]
  /\ eventReqs = [e \in Events |-> {}]
  /\ req = [r \in ReqIds |-> NoReq]
  /\ nextReq = 1
  /\ clientSeen = [e \in Events |-> [score |-> 0, updatedAt |-> 0]]

TBNext ==
  \/ \E c \in Clients : TBCheck(c)
  \/ TBStats
  \/ TBTick

\* The token-bucket limiter on its own.
TBInit == LPIdle /\ LCOff /\ XOff /\ TBIdle /\ FWOff /\ SWOff /\ DROff

TBSpec == TBInit /\ [][TBNext]_allvars


\* ----------------------------------------------------------- fixed window
\* Checks a client makes of the fixed window.
FWMaxCalls == 13
\* Last reading of the clock while the fixed window is checked (ms).
FWMaxClock == 41000

\* Checks of a client during which the clock moves, up to which the
\* arrival times of its requests are kept on record.
FWMaxSlips == 1

\* fixedWindowMiddleware(6, 20000) of GET /api/fixed-window.
FWMaxRequests == 6
FWWindowMs == 20000

FWClients == {"10.0.0.1"}
\* How far the clock moves between two requests (ms), and between the two
\* readings allow() takes of it.
FWSteps == {FWWindowMs \div 2, (FWWindowMs \div 2) - 1}
FWSkews == {0, 1}

FWAbsent == [present |-> FALSE, count |-> 0, windowStart |-> 0]

\* No check made yet: n checks in all, k of them in the current window and
\* near of these in its last second; pk, pnear, pAllowed and pEnd are the
\* same of the window before and its end, post the checks that opened the
\* current window within a second of pEnd.
FWNoCheck ==
  [n |-> 0, k |-> 0, near |-> 0, pk |-> 0, pnear |-> 0, pAllowed |-> TRUE,
   pEnd |-> 0, post |-> 0, time |-> 0, allowed |-> TRUE, remaining |-> 0,
   retryAfter |-> 0, resetAt |-> 0, http |-> NoResponse,
   quiet |-> FWAbsent, qAllowed |-> TRUE, qRemaining |-> 0,
   qRetryAfter |-> 0, slips |-> 0, admitted |-> <<>>, due |-> 0]

\* new FixedWindow(maxRequests, windowMs)
NewFixedWindow(t) == [present |-> TRUE, count |-> 0, windowStart |-> t]

\* Faulty variant: the window lasts one millisecond longer.
FWExpiredLate(w, t) == t - w.windowStart > FWWindowMs

\* checkAndResetWindow(): elapsed >= this.windowMs
FWExpired(w, t) == t - w.windowStart >= FWWindowMs

\* Faulty variant: the new window keeps the count of the old one.
FWResetKeepsCount(w, t) ==
  IF FWExpired(w, t) THEN [w EXCEPT !.windowStart = t] ELSE w

\* FixedWindow.checkAndResetWindow()
FWReset(w, t) ==
  IF FWExpired(w, t) THEN [w EXCEPT !.count = 0, !.windowStart = t] ELSE w

\* Faulty variant: the request that finds the window full is let in.
FWAdmitsFull(w) == w.count <= FWMaxRequests

\* allow(): this.count < this.maxRequests
FWAdmits(w) == w.count < FWMaxRequests

\* Faulty variant: the wait in milliseconds, not rounded up to seconds.
FWRetryAfterFloor(w, t) == (w.windowStart + FWWindowMs - t) \div 1000

\* allow(): Math.ceil((resetAt - now) / 1000)
FWRetryAfter(w, t) == CeilDiv(w.windowStart + FWWindowMs - t, 1000)

\* Faulty variant: a request let through is not counted.
FWAllowUncounted(w, t) ==
  IF FWAdmits(w)
  THEN [window |-> w, allowed |-> TRUE,
        remaining |-> FWMaxRequests - (w.count + 1),
        resetAt |-> w.windowStart + FWWindowMs, retryAfter |-> 0]
  ELSE [window |-> w, allowed |-> FALSE, remaining |-> 0,
        resetAt |-> w.windowStart + FWWindowMs,
        retryAfter |-> FWRetryAfter(w, t)]

\* allow() after checkAndResetWindow(), the clock read as t.
FWAllow(w, t) ==
  IF FWAdmits(w)
  THEN [window |-> [w EXCEPT !.count = @ + 1], allowed |-> TRUE,
        remaining |-> FWMaxRequests - (w.count + 1),
        resetAt |-> w.windowStart + FWWindowMs, retryAfter |-> 0]
  ELSE [window |-> w, allowed |-> FALSE, remaining |-> 0,
        resetAt |-> w.windowStart + FWWindowMs,
        retryAfter |-> FWRetryAfter(w, t)]

\* The middleware's window for the client, created on its first request.
FWWindowOf(c) ==
  IF windows[c].present THEN windows[c] ELSE NewFixedWindow(clock)

\* The record of a window that ended, kept when the next one begins.
FWShift(c) ==
  [fwLast[c] EXCEPT !.pk = fwLast[c].k, !.pnear = fwLast[c].near,
                    !.pAllowed = (fwLast[c].k = 0 \/ fwLast[c].allowed),
                    !.pEnd = windows[c].windowStart + FWWindowMs,
                    !.k = 0, !.near = 0, !.post = 0]

\* fixedWindowMiddleware from the result on.
FWResponse(res) ==
  [status |-> IF res.allowed THEN 200 ELSE 429,
   next |-> IF res.allowed THEN 1 ELSE 0,
   headers |-> LimitHeaders \cup {"X-RateLimit-Reset"} \cup
               (IF res.allowed THEN {} ELSE {"Retry-After"}),
   limit |-> FWMaxRequests, remaining |-> res.remaining, algorithm |-> "fixed-window",
   retryAfter |-> IF res.allowed THEN 0 ELSE res.retryAfter]

\* The arrival times of the requests let through, those of the windowMs
\* before t and t itself.
FWAdmitted(q, t) ==
  LET In(x) == x >= t - FWWindowMs IN Append(SelectSeq(q, In), t)

\* The checks so far during which the clock moved, counted up to
\* FWMaxSlips + 1.
FWSlips(l, t, t2) ==
  IF t2 > t THEN MinOf(FWMaxSlips + 1, l.slips + 1) ELSE l.slips

\* The record of a check arriving at t that got res at t2 in window w.
FWNote(l, w, t, t2, res) ==
  [l EXCEPT !.n = @ + 1, !.k = @ + 1,
            !.near = IF t >= w.windowStart + FWWindowMs - 1000
                     THEN @ + 1 ELSE 0,
            !.post = IF l.post = l.k /\ l.pEnd > 0 /\ t < l.pEnd + 1000
                     THEN @ + 1 ELSE @,
            !.time = t2, !.allowed = res.allowed,
            !.remaining = res.remaining, !.retryAfter = res.retryAfter,
            !.resetAt = res.resetAt, !.http = FWResponse(res),
            !.due = RetryDue(l.due, ~res.allowed, t2, res.retryAfter),
            !.slips = FWSlips(l, t, t2),
            !.admitted = IF FWSlips(l, t, t2) > FWMaxSlips THEN <<>>
                         ELSE IF res.allowed THEN FWAdmitted(@, t) ELSE @]

\* The same check on the window that the client's checks alone, with no
\* status read among them, have made: allow() at the same two readings.
FWQuiet(l, t, t2) ==
  LET q0 == IF l.quiet.present THEN l.quiet ELSE NewFixedWindow(t)
  IN  FWAllow(FWReset(q0, t), t2)

\* fixedWindowMiddleware: GET /api/fixed-window by client c; the clock
\* moves on by skew between the reading of checkAndResetWindow() and the
\* reading of allow().
FWCheck(c, skew) ==
  LET w0 == FWWindowOf(c)
      w1 == FWReset(w0, clock)
      res == FWAllow(w1, clock + skew)
      l0 == IF windows[c].present /\ w1.windowStart # w0.windowStart
            THEN FWShift(c) ELSE fwLast[c]
      q == FWQuiet(fwLast[c], clock, clock + skew)
  IN  /\ fwLast[c].n < FWMaxCalls
      /\ clock + skew <= FWMaxClock
      /\ clock' = clock + skew
      /\ windows' = [windows EXCEPT ![c] = res.window]
      /\ fwLast' = [fwLast EXCEPT ![c] =
           [FWNote(l0, w1, clock, clock + skew, res) EXCEPT
              !.quiet = q.window, !.qAllowed = q.allowed,
              !.qRemaining = q.remaining, !.qRetryAfter = q.retryAfter]]
      /\ UNCHANGED <<vars, lcvars, xvars, tbvars, swvars, drvars>>

\* getFixedWindowStats: getStatus() runs checkAndResetWindow() on every
\* window there is.
FWStats ==
  /\ windows' = [c \in FWClients |->
                   IF windows[c].present THEN FWReset(windows[c], clock)
                   ELSE windows[c]]
  /\ fwLast' = [c \in FWClients |->
                   IF windows[c].present /\ FWExpired(windows[c], clock)
                   THEN FWShift(c) ELSE fwLast[c]]
  /\ UNCHANGED <<clock, vars, lcvars, xvars, tbvars, swvars, drvars>>

FWTick ==
  /\ \E d \in FWSteps : ClockTick(d, FWMaxClock)
  /\ UNCHANGED <<fwvars, vars, lcvars, xvars, tbvars, swvars, drvars>>

\* The fixed-window limiter before any request.
FWIdle ==
  /\ clock = 1000
  /\ windows = [c \in FWClients |-> FWAbsent]
  /\ fwLast = [c \in FWClients |-> FWNoCheck]

FWInit == LPIdle /\ LCOff /\ XOff /\ FWIdle /\ TBOff /\ SWOff /\ DROff

FWNext ==
  \/ \E c \in FWClients, skew \in FWSkews : FWCheck(c, skew)
  \/ FWStats
  \/ FWTick

\* The fixed-window limiter on its own.
FWSpec == FWInit /\ [][FWNext]_allvars


\* --------------------------------------------------------- sliding window
\* Checks a client makes of the sliding window.
SWMaxCalls == 9
\* Last reading of the clock while the sliding window is checked (ms).
SWMaxClock == 31001
\* Checks of a client during which the clock moves on.
SWMaxSkews == 1

\* slidingWindowMiddleware(8, 30000) of GET /api/sliding-window.
SWMaxRequests == 8
SWWindowMs == 30000

SWClients == {"10.0.0.1"}
\* Requests arrive on a grid of windowMs / maxRequests; the clock moves on
\* by skew between the reading of cleanup() and the reading of allow().
SWStep == SWWindowMs \div SWMaxRequests
SWSkews == {0, 1}

SWAbsent == [present |-> FALSE, requests |-> <<>>]

\* No check made yet: n checks in all, the clock moved on during skews of
\* them, the last one arrived at arr and was decided at time; even says
\* that the arrivals so far were SWStep apart, recent holds the timestamps
\* of the last maxRequests + 1 admissions.
SWNoCheck ==
  [n |-> 0, skews |-> 0, arr |-> 0, time |-> 0, allowed |-> TRUE,
   remaining |-> 0, retryAfter |-> 0, even |-> TRUE, recent |-> <<>>,
   http |-> NoResponse, due |-> 0]

\* new SlidingWindow(maxRequests, windowMs)
NewSlidingWindow == [present |-> TRUE, requests |-> <<>>]

\* Faulty variant: a timestamp as old as the window is long is kept.
SWFreshOrEqual(timestamp, t) == timestamp >= t - SWWindowMs

\* cleanup(): timestamp > cutoff
SWFresh(timestamp, t) == timestamp > t - SWWindowMs

\* SlidingWindow.cleanup()
SWCleanup(w, t) ==
  LET Keep(timestamp) == SWFresh(timestamp, t)
  IN  [w EXCEPT !.requests = SelectSeq(w.requests, Keep)]

\* Faulty variant: one request more than maxRequests is let in.
SWAdmitsFull(w) == Len(w.requests) <= SWMaxRequests

\* allow(): this.requests.length < this.maxRequests
SWAdmits(w) == Len(w.requests) < SWMaxRequests

\* Faulty variant: the wait is counted from the newest request.
SWRetryAfterNewest(w, t) ==
  CeilDiv(w.requests[Len(w.requests)] + SWWindowMs - t, 1000)

\* allow(): Math.ceil((oldestRequest + this.windowMs - now) / 1000)
SWRetryAfter(w, t) == CeilDiv(w.requests[1] + SWWindowMs - t, 1000)

\* allow() after cleanup(), the clock read as t.
SWAllow(w, t) ==
  IF SWAdmits(w)
  THEN [window |-> [w EXCEPT !.requests = Append(@, t)], allowed |-> TRUE,
        remaining |-> SWMaxRequests - (Len(w.requests) + 1),
        retryAfter |-> 0]
  ELSE [window |-> w, allowed |-> FALSE, remaining |-> 0,
        retryAfter |-> SWRetryAfter(w, t)]

\* The middleware's window for the client, created on its first request.
SWWindowOf(c) ==
  IF swWindows[c].present THEN swWindows[c] ELSE NewSlidingWindow

\* The last maxRequests + 1 of the admitted timestamps.
SWRecent(q) ==
  IF Len(q) > SWMaxRequests + 1 THEN SubSeq(q, 2, Len(q)) ELSE q

\* slidingWindowMiddleware from the result on.
SWResponse(res) ==
  [status |-> IF res.allowed THEN 200 ELSE 429,
   next |-> IF res.allowed THEN 1 ELSE 0,
   headers |-> LimitHeaders \cup {"X-RateLimit-Reset"} \cup
               (IF res.allowed THEN {} ELSE {"Retry-After"}),
   limit |-> SWMaxRequests, remaining |-> res.remaining, algorithm |-> "sliding-window",
   retryAfter |-> IF res.allowed THEN 0 ELSE res.retryAfter]

\* The record of a check arriving at t that got res at t2.
SWNote(l, t, t2, res) ==
  [n |-> l.n + 1, skews |-> l.skews + (t2 - t), arr |-> t, time |-> t2,
   allowed |-> res.allowed,
   remaining |-> res.remaining, retryAfter |-> res.retryAfter,
   even |-> (l.n = 0 \/ (l.even /\ t - l.arr = SWStep)),
   recent |-> IF res.allowed THEN SWRecent(Append(l.recent, t2))
              ELSE l.recent,
   http |-> SWResponse(res),
   due |-> RetryDue(l.due, ~res.allowed, t2, res.retryAfter)]

\* slidingWindowMiddleware: GET /api/sliding-window by client c.
SWCheck(c, skew) ==
  LET w1 == SWCleanup(SWWindowOf(c), clock)
      res == SWAllow(w1, clock + skew)
  IN  /\ swLast[c].n < SWMaxCalls
      /\ clock + skew <= SWMaxClock
      /\ swLast[c].skews + skew <= SWMaxSkews
      /\ clock' = clock + skew
      /\ swWindows' = [swWindows EXCEPT ![c] = res.window]
      /\ swLast' = [swLast EXCEPT ![c] = SWNote(@, clock, clock + skew, res)]
      /\ UNCHANGED <<vars, lcvars, xvars, tbvars, fwvars, drvars>>

\* getSlidingWindowStats: getStatus() runs cleanup() on every window.
SWStats ==
  /\ swWindows' = [c \in SWClients |->
                     IF swWindows[c].present
                     THEN SWCleanup(swWindows[c], clock)
                     ELSE swWindows[c]]
  /\ UNCHANGED <<clock, swLast, vars, lcvars, xvars, tbvars, fwvars, drvars>>

\* Time passes until the next point of the grid.
SWTick ==
  /\ ClockTick(SWStep - ((clock - 1000) % SWStep), SWMaxClock)
  /\ UNCHANGED <<swvars, vars, lcvars, xvars, tbvars, fwvars, drvars>>

\* The sliding-window limiter before any request.
SWIdle ==
  /\ clock = 1000
  /\ swWindows = [c \in SWClients |-> SWAbsent]
  /\ swLast = [c \in SWClients |-> SWNoCheck]

SWInit == LPIdle /\ LCOff /\ XOff /\ SWIdle /\ TBOff /\ FWOff /\ DROff

SWNext ==
  \/ \E c \in SWClients, skew \in SWSkews : SWCheck(c, skew)
  \/ SWStats
  \/ SWTick

\* The sliding-window limiter on its own.
SWSpec == SWInit /\ [][SWNext]_allvars


\* ------------------------------------------------------ distributed limiter
\* Checks a client makes of the distributed limiter.
DRMaxCalls == 12
\* Last reading of the clock while the distributed limiter is checked (ms).
DRMaxClock == 61000

\* distributedRedisMiddleware(10, 60000) of GET /api/distributed.
DRMaxRequests == 10
DRWindowMs == 60000

DRClients == {"10.0.0.1"}
\* The server processes that share the store.
DRProcs == {"p1"}
\* How far the clock moves between two steps (ms).
DRSteps == {DRWindowMs \div 3, DRWindowMs \div 2}

\* No sorted set under the client's key.
DRNoKey == [scores |-> <<>>, expireAt |-> 0]

\* The process handles no request.
DRNoReq == [pc |-> "idle", client |-> "", now |-> 0, count |-> 0, retryAfter |-> 0]

\* No check made yet; outcome is allowed, denied, failopen (allowed with
\* the error marker) or unavailable (503).
DRNoCheck ==
  [n |-> 0, time |-> 0, outcome |-> "allowed", remaining |-> 0,
   retryAfter |-> 0, prev |-> "none", http |-> NoResponse, clean |-> TRUE,
   prompt |-> TRUE, due |-> 0,
   ref |-> <<>>, refAllowed |-> TRUE, refRemaining |-> 0, admitted |-> <<>>]

\* The key as the store sees it at time t: gone once its expiry has passed.
DRKey(c, t) ==
  IF drStore[c].expireAt <= t THEN DRNoKey ELSE drStore[c]

\* Faulty variant: the entry whose score is the start of the window stays.
DRRemRangeExclusive(q, max) ==
  LET Keep(score) == score >= max IN SelectSeq(q, Keep)

\* zRemRangeByScore(key, 0, max): the scores of 0..max are removed.
DRRemRange(q, max) ==
  LET Keep(score) == score > max IN SelectSeq(q, Keep)

\* zAdd(key, {score, value}): the sorted set stays ordered by score.
DRAdd(q, score) ==
  LET Before(x) == x <= score
      After(x) == x > score
  IN  SelectSeq(q, Before) \o <<score>> \o SelectSeq(q, After)

\* Faulty variant: the wait is counted from the newest entry.
DRRetryAfterNewest(q, t) ==
  CeilDiv((IF q = <<>> THEN t ELSE q[Len(q)]) + DRWindowMs - t, 1000)

\* Math.ceil((oldestScore + windowMs - now) / 1000), oldest the first entry
\* zRange(key, 0, 0) returns, now if there is none.
DRRetryAfter(q, t) ==
  CeilDiv((IF q = <<>> THEN t ELSE q[1]) + DRWindowMs - t, 1000)

\* distributedRedisMiddleware from the result on: the headers, then 429 or
\* next(), after which the route handler answers 200.
DRResponse(outcome, remaining, retryAfter) ==
  [status |-> IF outcome = "denied" THEN 429 ELSE 200,
   next |-> IF outcome = "denied" THEN 0 ELSE 1,
   headers |-> IF outcome = "denied" THEN LimitHeaders \cup {"Retry-After"}
               ELSE LimitHeaders,
   limit |-> DRMaxRequests, remaining |-> remaining,
   algorithm |-> "distributed-redis",
   retryAfter |-> IF outcome = "denied" THEN retryAfter ELSE 0]

\* distributedRedisMiddleware with the flag down: 503 and a body, returned
\* before any header is set.
DRUnavailable == [NoResponse EXCEPT !.status = 503]

\* SlidingWindow.allow() of the in-memory limiter on the log q at time t,
\* with the limit and the window of the distributed one.
DRRefAllow(q, t) ==
  LET kept == SelectSeq(q, LAMBDA timestamp : timestamp > t - DRWindowMs)
      allowed == Len(kept) < DRMaxRequests
  IN  [log |-> IF allowed THEN Append(kept, t) ELSE kept,
       allowed |-> allowed,
       remaining |-> IF allowed THEN DRMaxRequests - Len(kept) - 1 ELSE 0]

\* The earliest clock reading among the requests in flight.
DRLowWater ==
  LET nows == {drReq[q].now : q \in {x \in DOMAIN drReq : drReq[x].pc # "idle"}}
  IN  CHOOSE t \in nows : \A u \in nows : t <= u

\* The timestamps of the requests the store admitted, in order; one that no
\* request in flight or to come can share a window with is dropped.
DRAdmitted(q, t) == DRRemRange(DRAdd(q, t), DRLowWater - DRWindowMs)

\* The response to the request of process p is on record for its client.
\* As long as every answer came from the store, so is what the in-memory
\* limiter answers to the same check times; the first answer that did not
\* ends the comparison. prompt: every request so far was answered at the
\* clock reading it started with.
DRRespond(p, outcome, remaining, retryAfter) ==
  LET r == drReq[p]
      l == drLast[r.client]
      clean == l.clean /\ outcome \in {"allowed", "denied"}
      ref == DRRefAllow(l.ref, r.now)
  IN  /\ drLast' = [drLast EXCEPT ![r.client] =
           [n |-> l.n + 1, time |-> r.now, outcome |-> outcome,
            remaining |-> remaining, retryAfter |-> retryAfter,
            prev |-> IF l.n = 0 THEN "none" ELSE l.outcome,
            http |-> DRResponse(outcome, remaining, retryAfter),
            clean |-> clean, prompt |-> l.prompt /\ r.now = clock,
            due |-> RetryDue(l.due, outcome = "denied", clock, retryAfter),
            ref |-> IF clean THEN ref.log ELSE <<>>,
            refAllowed |-> IF clean THEN ref.allowed ELSE TRUE,
            refRemaining |-> IF clean THEN ref.remaining ELSE 0,
            admitted |-> IF ~clean THEN <<>>
                         ELSE IF outcome = "allowed"
                         THEN DRAdmitted(l.admitted, r.now)
                         ELSE l.admitted]]
      /\ drReq' = [drReq EXCEPT ![p] = DRNoReq]

\* A middleware that does not look at the flag.
DRBeginAnyway(p, c) ==
  /\ drReq[p].pc = "idle"
  /\ drLast[c].n < DRMaxCalls
  /\ drReq' = [drReq EXCEPT ![p] =
        [pc |-> "exec", client |-> c, now |-> clock, count |-> 0,
         retryAfter |-> 0]]
  /\ UNCHANGED <<clock, drAvail, drStore, drLast, vars, lcvars, xvars, tbvars, fwvars, swvars>>

\* distributedRedisMiddleware up to its first await: 503 when the flag is
\* down, else slidingWindowRedis reads the clock and sends the MULTI block.
DRBegin(p, c) ==
  /\ drReq[p].pc = "idle"
  /\ drLast[c].n < DRMaxCalls
  /\ IF ~drAvail[p]
     THEN /\ drLast' = [drLast EXCEPT ![c] =
               [@ EXCEPT !.n = @ + 1, !.time = clock,
                         !.outcome = "unavailable", !.remaining = 0,
                         !.retryAfter = 0,
                         !.prev = IF drLast[c].n = 0 THEN "none"
                                  ELSE drLast[c].outcome,
                         !.http = DRUnavailable, !.clean = FALSE,
                         !.due = 0,
                         !.ref = <<>>, !.refAllowed = TRUE,
                         !.refRemaining = 0, !.admitted = <<>>]]
          /\ UNCHANGED drReq
     ELSE /\ drReq' = [drReq EXCEPT ![p] =
               [pc |-> "exec", client |-> c, now |-> clock, count |-> 0,
                retryAfter |-> 0]]
          /\ UNCHANGED drLast
  /\ UNCHANGED <<clock, drAvail, drStore, vars, lcvars, xvars, tbvars, fwvars, swvars>>

\* pipeline.exec(): the store runs zRemRangeByScore, zCard, zAdd and expire
\* as one step; below the limit the request is allowed.
DRExec(p) ==
  LET r == drReq[p]
      kept == DRRemRange(DRKey(r.client, clock).scores, r.now - DRWindowMs)
      count == Len(kept)
  IN  /\ r.pc = "exec"
      /\ drStore' = [drStore EXCEPT ![r.client] =
           [scores |-> DRAdd(kept, r.now),
            expireAt |-> clock + CeilDiv(DRWindowMs, 1000) * 1000]]
      /\ IF count < DRMaxRequests
         THEN DRRespond(p, "allowed", DRMaxRequests - count - 1, 0)
         ELSE /\ drReq' = [drReq EXCEPT ![p].pc = "zrange", ![p].count = count]
              /\ UNCHANGED drLast
      /\ UNCHANGED <<clock, drAvail, vars, lcvars, xvars, tbvars, fwvars, swvars>>

\* zRange(key, 0, 0): the oldest entry gives the wait.
DRZRange(p) ==
  LET r == drReq[p]
  IN  /\ r.pc = "zrange"
      /\ drReq' = [drReq EXCEPT ![p].pc = "zrem",
             ![p].retryAfter = DRRetryAfter(DRKey(r.client, clock).scores, r.now)]
      /\ UNCHANGED <<clock, drAvail, drStore, drLast, vars, lcvars, xvars, tbvars, fwvars, swvars>>

\* zRem(key, `${now}-${Math.random()}`): the member is named with a new
\* random number, so no entry goes; the request is denied.
DRZRem(p) ==
  /\ drReq[p].pc = "zrem"
  /\ DRRespond(p, "denied", 0, MaxOf(1, drReq[p].retryAfter))
  /\ UNCHANGED <<clock, drAvail, drStore, vars, lcvars, xvars, tbvars, fwvars, swvars>>

\* A catch block that answers with nothing remaining.
DRFailClosed(p) ==
  /\ drReq[p].pc \in {"exec", "zrange", "zrem"}
  /\ DRRespond(p, "failopen", 0, 0)
  /\ UNCHANGED <<clock, drAvail, drStore, vars, lcvars, xvars, tbvars, fwvars, swvars>>

\* A store command fails: the catch block allows the request.
DRFail(p) ==
  /\ drReq[p].pc \in {"exec", "zrange", "zrem"}
  /\ DRRespond(p, "failopen", DRMaxRequests, 0)
  /\ UNCHANGED <<clock, drAvail, drStore, vars, lcvars, xvars, tbvars, fwvars, swvars>>

\* redisClient.on('error') and redisClient.on('connect')
DRError(p) ==
  /\ drAvail[p]
  /\ drAvail' = [drAvail EXCEPT ![p] = FALSE]
  /\ UNCHANGED <<clock, drStore, drReq, drLast, vars, lcvars, xvars, tbvars, fwvars, swvars>>

DRConnect(p) ==
  /\ ~drAvail[p]
  /\ drAvail' = [drAvail EXCEPT ![p] = TRUE]
  /\ UNCHANGED <<clock, drStore, drReq, drLast, vars, lcvars, xvars, tbvars, fwvars, swvars>>

DRTick ==
  /\ \E d \in DRSteps : ClockTick(d, DRMaxClock)
  /\ UNCHANGED <<drvars, vars, lcvars, xvars, tbvars, fwvars, swvars>>

\* The distributed limiter after initRedis(), connected or not.
DRIdle ==
  /\ clock = 1000
  /\ drAvail \in [DRProcs -> BOOLEAN]
  /\ drStore = [c \in DRClients |-> DRNoKey]
  /\ drReq = [p \in DRProcs |-> DRNoReq]
  /\ drLast = [c \in DRClients |-> DRNoCheck]

DRInit == LPIdle /\ LCOff /\ XOff /\ DRIdle /\ TBOff /\ FWOff /\ SWOff

DRNext ==
  \/ \E p \in DRProcs, c \in DRClients : DRBegin(p, c)
  \/ \E p \in DRProcs : DRExec(p)
  \/ \E p \in DRProcs : DRZRange(p)
  \/ \E p \in DRProcs : DRZRem(p)
  \/ \E p \in DRProcs : DRFail(p)
  \/ \E p \in DRProcs : DRError(p)
  \/ \E p \in DRProcs : DRConnect(p)
  \/ DRTick

\* The distributed limiter on its own.
DRSpec == DRInit /\ [][DRNext]_allvars

\* Two server processes in front of one store that is reachable throughout;
\* their store commands interleave, a MULTI block being one step.
DRCProcs == {"p1", "p2"}

DRCIdle ==
  /\ clock = 1000
  /\ drAvail = [p \in DRCProcs |-> TRUE]
  /\ drStore = [c \in DRClients |-> DRNoKey]
  /\ drReq = [p \in DRCProcs |-> DRNoReq]
  /\ drLast = [c \in DRClients |-> DRNoCheck]

DRCInit == LPIdle /\ LCOff /\ XOff /\ DRCIdle /\ TBOff /\ FWOff /\ SWOff

DRCNext ==
  \/ \E p \in DRCProcs, c \in DRClients : DRBegin(p, c)
  \/ \E p \in DRCProcs : DRExec(p)
  \/ \E p \in DRCProcs : DRZRange(p)
  \/ \E p \in DRCProcs : DRZRem(p)
  \/ DRTick

DRCSpec == DRCInit /\ [][DRCNext]_allvars


\* ------------------------------------------------------- the four limiters
\* The limiter that receives the requests.
TBOn == DOMAIN buckets # {}
FWOn == DOMAIN windows # {}
SWOn == DOMAIN swWindows # {}
DROn == DOMAIN drStore # {}

\* The clients call one of the four endpoints; the limiters share no state.
RLInit == TBInit \/ FWInit \/ SWInit \/ DRInit

RLNext ==
  \/ TBOn /\ TBNext
  \/ FWOn /\ FWNext
  \/ SWOn /\ SWNext
  \/ DROn /\ DRNext

RLSpec == RLInit /\ [][RLNext]_allvars


\* --------------------------------------------- the long-polling client
\* App.jsx. Each call of startLongPoll that got past its first line is a
\* loop of fetch, a short pause, fetch, ... that ends when it finds
\* isPolling false or its fetch aborted. The server is whatever answers:
\* a response (200 or 408) or a network error, at any time.
MaxPolls == 3

\* Two of the five event ids.
EVENT_IDS == {"EVENT#00", "EVENT#01"}

PollIds == 1..MaxPolls

\* The requests of event e that wait for the server.
InFlight(e) == {i \in PollIds : polls[e][i] = "fetch"}

\* A call of startLongPoll(e) takes the first free place.
FreePoll(e) ==
  IF \E i \in PollIds : polls[e][i] = "none"
  THEN CHOOSE i \in PollIds :
         /\ polls[e][i] = "none"
         /\ \A j \in PollIds : polls[e][j] = "none" => i <= j
  ELSE 0

\* startLongPoll(eventId) up to its first await, for every e in es: return
\* if isPolling, else set it, make a controller, count the connection and
\* send the fetch.
startLongPoll(es) ==
  LET starts == {e \in es : ~isPolling[e]}
  IN  /\ \A e \in starts : FreePoll(e) # 0
      /\ isPolling' = [e \in EVENT_IDS |-> isPolling[e] \/ e \in starts]
      /\ abortControllers' = [e \in EVENT_IDS |->
           IF e \in starts THEN FreePoll(e) ELSE abortControllers[e]]
      /\ polls' = [e \in EVENT_IDS |->
           IF e \in starts THEN [polls[e] EXCEPT ![FreePoll(e)] = "fetch"]
           ELSE polls[e]]
      /\ activeConnections' = activeConnections + Cardinality(starts)

\* The call whose fetch the stored controller of e can still abort, or 0.
Abortable(e) ==
  IF abortControllers[e] # 0 /\ polls[e][abortControllers[e]] = "fetch"
  THEN abortControllers[e] ELSE 0

\* stopLongPoll(eventId) for every e in es: clear isPolling, abort and
\* delete the stored controller. The aborted fetch rejects with AbortError;
\* its catch block takes the connection off the count and breaks.
stopLongPoll(es) ==
  LET aborted == {e \in es : Abortable(e) # 0}
  IN  /\ isPolling' = [e \in EVENT_IDS |-> isPolling[e] /\ e \notin es]
      /\ abortControllers' = [e \in EVENT_IDS |->
           IF e \in es THEN 0 ELSE abortControllers[e]]
      /\ polls' = [e \in EVENT_IDS |->
           IF e \in aborted THEN [polls[e] EXCEPT ![Abortable(e)] = "none"]
           ELSE polls[e]]
      /\ activeConnections' =
           MaxOf(0, activeConnections - Cardinality(aborted))

\* togglePolling(eventId)
togglePolling(e) ==
  /\ IF isPolling[e] THEN stopLongPoll({e}) ELSE startLongPoll({e})
  /\ UNCHANGED <<vars, rlvars, xvars>>

\* toggleAllPolling()
toggleAllPolling ==
  /\ IF \E e \in EVENT_IDS : isPolling[e]
     THEN stopLongPoll(EVENT_IDS) ELSE startLongPoll(EVENT_IDS)
  /\ UNCHANGED <<vars, rlvars, xvars>>

\* The fetch of call i resolves with 200 or 408: the connection is off the
\* count and the call pauses for 100 ms.
LCResponse(e, i) ==
  /\ polls[e][i] = "fetch"
  /\ polls' = [polls EXCEPT ![e][i] = "pause"]
  /\ activeConnections' = activeConnections - 1
  /\ UNCHANGED <<isPolling, abortControllers, vars, rlvars, xvars>>

\* The fetch of call i fails: the catch block waits 2 s before the retry.
LCError(e, i) ==
  /\ polls[e][i] = "fetch"
  /\ polls' = [polls EXCEPT ![e][i] = "retry"]
  /\ activeConnections' = MaxOf(0, activeConnections - 1)
  /\ UNCHANGED <<isPolling, abortControllers, vars, rlvars, xvars>>

\* The wait of call i is over and the while condition is read again: with
\* isPolling set the call makes a new controller and fetches, else it
\* returns.
LCResume(e, i) ==
  /\ polls[e][i] \in {"pause", "retry"}
  /\ IF isPolling[e]
     THEN /\ polls' = [polls EXCEPT ![e][i] = "fetch"]
          /\ abortControllers' = [abortControllers EXCEPT ![e] = i]
          /\ activeConnections' = activeConnections + 1
     ELSE /\ polls' = [polls EXCEPT ![e][i] = "none"]
          /\ UNCHANGED <<abortControllers, activeConnections>>
  /\ UNCHANGED <<isPolling, vars, rlvars, xvars>>

\* The page after its first render: nothing polls.
LCIdle ==
  /\ isPolling = [e \in EVENT_IDS |-> FALSE]
  /\ abortControllers = [e \in EVENT_IDS |-> 0]
  /\ polls = [e \in EVENT_IDS |-> [i \in PollIds |-> "none"]]
  /\ activeConnections = 0

LCInit == LPIdle /\ RLOff /\ LCIdle /\ XOff

LCNext ==
  \/ \E e \in EVENT_IDS : togglePolling(e)
  \/ toggleAllPolling
  \/ \E e \in EVENT_IDS, i \in PollIds : LCResponse(e, i)
  \/ \E e \in EVENT_IDS, i \in PollIds : LCError(e, i)
  \/ \E e \in EVENT_IDS, i \in PollIds : LCResume(e, i)

\* The client on its own.
LCSpec == LCInit /\ [][LCNext]_allvars

\* ------------------------------------------------------- the SSE backend
\* Server Sent Events/Backend/index.js. A connection is a GET /events
\* request and its response; clients holds the responses that broadcast()
\* writes to.
SSEConns == {"k1", "k2"}

\* Events written to one response, up to which the timers go on.
SSEMaxWrites == 5
\* Runs of the metrics timer.
SSEMaxRequests == 2
\* POST /trigger-notification requests.
SSEMaxTriggers == 2

\* No POST /trigger-notification answered yet.
SSENoTrigger == [n |-> 0, status |-> 0]

\* The stream of k after `data: {type, ...}\n\n` was written to it.
SSEWrite(stream, type) == Append(stream, type)

\* broadcast(eventData): every response in clients is written to; one
\* whose write() throws (those of bad) is deleted from clients.
broadcast(type, bad) ==
  /\ bad \subseteq sseClients
  /\ \A k \in sseClients : Len(sseStreams[k]) < SSEMaxWrites
  /\ sseStreams' = [k \in SSEConns |->
                      IF k \in sseClients \ bad
                      THEN SSEWrite(sseStreams[k], type) ELSE sseStreams[k]]
  /\ sseClients' = sseClients \ bad

\* app.get('/events'): three events are written, then clients.add(res).
SSEConnect(k) ==
  /\ k \notin sseOpen
  /\ sseOpen' = sseOpen \cup {k}
  /\ sseStreams' = [sseStreams EXCEPT ![k] =
        <<"connected", "stock-update", "metrics-update">>]
  /\ sseClients' = sseClients \cup {k}
  /\ UNCHANGED <<sseRequests, sseTrigger, vars, rlvars, lcvars, psvars, spvars>>

\* req.on('close'): clients.delete(res)
SSEClose(k) ==
  /\ k \in sseOpen
  /\ sseOpen' = sseOpen \ {k}
  /\ sseClients' = sseClients \ {k}
  /\ UNCHANGED <<sseStreams, sseRequests, sseTrigger, vars, rlvars, lcvars, psvars, spvars>>

\* setInterval(..., 2000): the stock price moves.
SSEStock ==
  /\ \E bad \in SUBSET sseClients : broadcast("stock-update", bad)
  /\ UNCHANGED <<sseOpen, sseRequests, sseTrigger, vars, rlvars, lcvars, psvars, spvars>>

\* setInterval(..., 3000): eventStreams.metrics.requests++
SSEMetrics ==
  /\ sseRequests < SSEMaxRequests
  /\ sseRequests' = sseRequests + 1
  /\ \E bad \in SUBSET sseClients : broadcast("metrics-update", bad)
  /\ UNCHANGED <<sseOpen, sseTrigger, vars, rlvars, lcvars, psvars, spvars>>

\* setInterval(..., 5000): a random notification.
SSENotification ==
  /\ \E bad \in SUBSET sseClients : broadcast("notification", bad)
  /\ UNCHANGED <<sseOpen, sseRequests, sseTrigger, vars, rlvars, lcvars, psvars, spvars>>

\* setInterval(..., 15000)
SSEHeartbeat ==
  /\ \E bad \in SUBSET sseClients : broadcast("heartbeat", bad)
  /\ UNCHANGED <<sseOpen, sseRequests, sseTrigger, vars, rlvars, lcvars, psvars, spvars>>

\* POST /trigger-notification: the app has the routes GET /events and
\* GET / only, so Express answers 404 and no handler of the app runs.
SSETrigger ==
  /\ sseTrigger.n < SSEMaxTriggers
  /\ sseTrigger' = [n |-> sseTrigger.n + 1, status |-> 404]
  /\ UNCHANGED <<sseOpen, sseClients, sseStreams, sseRequests, vars, rlvars, lcvars, psvars, spvars>>

\* The SSE backend after app.listen.
SSEIdle ==
  /\ sseOpen = {}
  /\ sseClients = {}
  /\ sseStreams = [k \in SSEConns |-> <<>>]
  /\ sseRequests = 0
  /\ sseTrigger = SSENoTrigger

SSEInit == LPIdle /\ RLOff /\ LCOff /\ SSEIdle /\ PSOff /\ SPOff

SSENext ==
  \/ \E k \in SSEConns : SSEConnect(k)
  \/ \E k \in SSEConns : SSEClose(k)
  \/ SSEStock
  \/ SSEMetrics
  \/ SSENotification
  \/ SSEHeartbeat
  \/ SSETrigger

SSESpec == SSEInit /\ [][SSENext]_allvars


\* ------------------------------------------------- the pub/sub publisher
\* pub-sub/publisher/index.js. A chain is one call of messagePublisher and
\* the calls its timers make after it: it waits for redis.publish or for
\* its timer. Time is in seconds.
PSMaxChains == 3
PSMaxClock == 11

\* setTimeout(messagePublisher, 5 * 1000)
PSPeriod == 5

PSChains == 1..PSMaxChains

PSNoChain == [pc |-> "none", due |-> 0]

\* The chains that wait for their timer.
PSTimers == {i \in PSChains : psChains[i].pc = "timer"}

\* messagePublisher up to `await redis.publish(channel, message)`.
messagePublisher(i) ==
  psChains' = [psChains EXCEPT ![i] = [pc |-> "publish", due |-> 0]]

\* redis.on('ready', ...): the client is ready, for the first time or
\* after it reconnected; messagePublisher() is called.
PSReady ==
  /\ ~psReady
  /\ psReady' = TRUE
  /\ \E i \in PSChains :
       /\ psChains[i].pc = "none"
       /\ \A j \in PSChains : j < i => psChains[j].pc # "none"
       /\ messagePublisher(i)
  /\ UNCHANGED <<psClock, psPublished, vars, rlvars, lcvars, ssevars, spvars>>

\* The connection to Redis is lost; the client reconnects by itself.
PSDrop ==
  /\ psReady
  /\ psReady' = FALSE
  /\ UNCHANGED <<psClock, psChains, psPublished, vars, rlvars, lcvars, ssevars, spvars>>

\* redis.publish resolves: the message is out, the next call is set up.
PSPublished(i) ==
  /\ psChains[i].pc = "publish"
  /\ psReady
  /\ psPublished' = psPublished + 1
  /\ psChains' = [psChains EXCEPT ![i] =
        [pc |-> "timer", due |-> psClock + PSPeriod]]
  /\ UNCHANGED <<psClock, psReady, vars, rlvars, lcvars, ssevars, spvars>>

\* redis.publish rejects: the error is logged, the next call is set up.
PSFailed(i) ==
  /\ psChains[i].pc = "publish"
  /\ psChains' = [psChains EXCEPT ![i] =
        [pc |-> "timer", due |-> psClock + PSPeriod]]
  /\ UNCHANGED <<psClock, psReady, psPublished, vars, rlvars, lcvars, ssevars, spvars>>

\* The timer of chain i expires: messagePublisher runs again.
PSTimer(i) ==
  /\ psChains[i].pc = "timer"
  /\ psChains[i].due <= psClock
  /\ messagePublisher(i)
  /\ UNCHANGED <<psClock, psReady, psPublished, vars, rlvars, lcvars, ssevars, spvars>>

\* A second passes; a timer that is due runs first.
PSTick ==
  /\ psClock < PSMaxClock
  /\ \A i \in PSTimers : psChains[i].due > psClock
  /\ psClock' = psClock + 1
  /\ UNCHANGED <<psReady, psChains, psPublished, vars, rlvars, lcvars, ssevars, spvars>>

\* The publisher after redis.connect() was called.
PSIdle ==
  /\ psClock = 0
  /\ psReady = FALSE
  /\ psChains = [i \in PSChains |-> PSNoChain]
  /\ psPublished = 0

PSInit == LPIdle /\ RLOff /\ LCOff /\ SSEOff /\ PSIdle /\ SPOff

PSNext ==
  \/ PSReady
  \/ PSDrop
  \/ \E i \in PSChains : PSPublished(i)
  \/ \E i \in PSChains : PSFailed(i)
  \/ \E i \in PSChains : PSTimer(i)
  \/ PSTick

PSSpec == PSInit /\ [][PSNext]_allvars


\* ------------------------------------------- the short polling backend
\* Short Polling/Backend/index.js. Time is in seconds.
SPMaxItems == 3
SPMaxClock == 4

\* wait = Math.floor(Math.random() * 100): two of the values.
SPWaits == {0, 2}

\* Values of req.params.id.
SPParams == {"0", "1", "7", "abc", " "}

\* Number(s) for the strings of SPParams: digits give their number, a
\* string of white space gives 0, any other text gives NaN.
SPNumber(s) ==
  CASE s = "0" -> [nan |-> FALSE, value |-> 0]
    [] s = "1" -> [nan |-> FALSE, value |-> 1]
    [] s = "7" -> [nan |-> FALSE, value |-> 7]
    [] s = " " -> [nan |-> FALSE, value |-> 0]
    [] OTHER   -> [nan |-> TRUE, value |-> 0]

SPNoResponse == [route |-> "", code |-> 0, id |-> 0, status |-> ""]

\* app.post('/items'): db[id] = {...} puts the item under id, in place of
\* what was there.
SPCreate(wait) ==
  LET id == next_id
  IN  /\ next_id < SPMaxItems
      /\ next_id' = next_id + 1
      /\ items' = (id :> [id |-> id, status |-> "creating",
                          updatedAt |-> spClock]) @@ items
      /\ spTimers' = Append(spTimers, [id |-> id, due |-> spClock + wait])
      /\ spLast' = [route |-> "POST /items", code |-> 200, id |-> id,
                    status |-> "creating"]
      /\ UNCHANGED <<spClock, vars, rlvars, lcvars, ssevars, psvars>>

\* The callback of setTimeout(..., wait * 1000) of a POST /items.
SPTimer(n) ==
  LET t == spTimers[n]
  IN  /\ t.due <= spClock
      /\ items' = [items EXCEPT ![t.id] =
            [@ EXCEPT !.status = "Success", !.updatedAt = spClock]]
      /\ spTimers' = [j \in 1..(Len(spTimers) - 1) |->
                        IF j < n THEN spTimers[j] ELSE spTimers[j + 1]]
      /\ UNCHANGED <<spClock, next_id, spLast, vars, rlvars, lcvars, ssevars, psvars>>

\* app.get('/items/:id/status')
SPStatus(param) ==
  LET id == SPNumber(param)
  IN  /\ spLast' =
           IF id.nan
           THEN [route |-> param, code |-> 400, id |-> 0, status |-> ""]
           ELSE IF id.value \in DOMAIN items
           THEN [route |-> param, code |-> 200, id |-> id.value,
                 status |-> items[id.value].status]
           ELSE [route |-> param, code |-> 404, id |-> 0, status |-> ""]
      /\ UNCHANGED <<spClock, items, next_id, spTimers, vars, rlvars, lcvars, ssevars, psvars>>

\* A second passes; a timer that is due runs first.
SPTick ==
  /\ spClock < SPMaxClock
  /\ \A n \in 1..Len(spTimers) : spTimers[n].due > spClock
  /\ spClock' = spClock + 1
  /\ UNCHANGED <<items, next_id, spTimers, spLast, vars, rlvars, lcvars, ssevars, psvars>>

\* The short polling backend after app.listen.
SPIdle ==
  /\ spClock = 1
  /\ items = <<>>
  /\ next_id = 0
  /\ spTimers = <<>>
  /\ spLast = SPNoResponse

SPInit == LPIdle /\ RLOff /\ LCOff /\ SSEOff /\ PSOff /\ SPIdle

SPNext ==
  \/ \E wait \in SPWaits : SPCreate(wait)
  \/ \E n \in 1..Len(spTimers) : SPTimer(n)
  \/ \E param \in SPParams : SPStatus(param)
  \/ SPTick

SPSpec == SPInit /\ [][SPNext]_allvars



\* The long-polling server on its own.
Spec == Init /\ [][Next]_allvars

\* Timers that have expired run, and the clock goes on.
Fairness ==
  /\ WF_vars(Tick)
  /\ WF_vars(\E e \in Events, inc \in ScoreIncs, delay \in Delays :
               EmitterFire(e, inc, delay))
  /\ \A r \in ReqIds : WF_vars(TimeoutFire(r))
  /\ \A r \in ReqIds : WF_vars(TimeoutThrows(r))

FairSpec == Spec /\ Fairness

\* ================================================================ claims
\* The waits: requests that took the deferred path of GET /status.
Waits == {r \in ReqIds : req[r].state \notin {"unused", "ANSWERED"}}
Terminal == {"RESOLVED_BY_DATA", "RESOLVED_BY_TIMEOUT", "CANCELLED"}
Statuses(r) == {req[r].sent[i].status : i \in 1..Len(req[r].sent)}

\* C1: a wait gets at most one response, never both a 200 and a 408, and
\* once it is resolved by data, by timeout or cancelled, no later callback
\* settles it again.
C1_ExactlyOnce ==
  [][\A r \in ReqIds :
       /\ req'[r].state \notin {"unused", "ANSWERED"} =>
            /\ Len(req'[r].sent) <= 1
            /\ ~({200, 408} \subseteq {req'[r].sent[i].status :
                                        i \in 1..Len(req'[r].sent)})
       /\ req[r].state \in Terminal =>
            /\ req'[r].state = req[r].state
            /\ req'[r].sent = req[r].sent]_vars

\* C1 witness: one wait resolved by data, another by timeout, and the clock
\* at the first one's deadline.
C1_Witness ==
  \E r, q \in Waits :
    /\ req[r].state = "RESOLVED_BY_DATA"
    /\ Statuses(r) = {200}
    /\ now >= req[r].deadline
    /\ req[q].state = "RESOLVED_BY_TIMEOUT"
    /\ Statuses(q) = {408}

\* A step of startEmitter's timer callback for resource e: it changes the
\* item, re-arms the emitter, or settles a wait by data.
MutationStep(e) ==
  \/ db'[e] # db[e]
  \/ emitterDue'[e] # emitterDue[e]
  \/ \E r \in eventReqs[e] :
       req'[r].state = "RESOLVED_BY_DATA" /\ req'[r] # req[r]

\* C2: a mutation answers every wait registered for the resource with 200
\* and the post-mutation item, in the same step, and leaves the waiter set
\* empty; it answers no request outside that set.
C2_NotificationSweep ==
  [][\A e \in Events :
       MutationStep(e) =>
         /\ \A r \in eventReqs[e] :
              /\ req'[r].sent =
                   <<Response(200, "Data fetched successfully", db'[e])>>
              /\ req'[r].timer = "cleared"
         /\ eventReqs'[e] = {}
         /\ \A r \in ReqIds \ eventReqs[e] : req'[r] = req[r]]_vars

\* C2 witness: two waits of one resource answered with the same mutated item.
C2_Witness ==
  \E r, q \in Waits :
    /\ r # q
    /\ req[r].eventId = req[q].eventId
    /\ req[r].state = "RESOLVED_BY_DATA"
    /\ req[q].state = "RESOLVED_BY_DATA"
    /\ req[r].sent = req[q].sent
    /\ req[r].sent[1].score > 0

\* C3: a request of the React client is parked only while the resource's
\* score and updatedAt are those of the item the client received last.
C3_NoLostNotification ==
  \A e \in Events : \A r \in eventReqs[e] :
    req[r].byClient =>
      /\ db[e].score = clientSeen[e].score
      /\ db[e].updatedAt = clientSeen[e].updatedAt

\* C4: a registered wait is never older than 30 s, and under fairness of the
\* timers it eventually leaves REGISTERED by data, timeout or cancellation.
C4_NeverZero ==
  /\ [](\A r \in ReqIds :
          req[r].state = "REGISTERED" =>
            /\ req[r].timer = "pending"
            /\ now <= req[r].deadline)
  /\ \A r \in ReqIds :
       (req[r].state = "REGISTERED") ~> (req[r].state \in Terminal)

\* C5: GET /status for an existing resource whose updatedAt is greater than
\* last_updated answers 200 with the current item in the same step, adds
\* nothing to any waiter set and creates no timer.
C5_ImmediateReturn ==
  [][nextReq' = nextReq + 1 =>
       LET r == nextReq
           e == req'[r].eventId
           lu == req'[r].lu
       IN  (e \in Events /\ lu.kind = "num" /\ db[e].updatedAt > lu.val) =>
             /\ req'[r].sent =
                  <<Response(200, "Data fetched successfully", db[e])>>
             /\ req'[r].timer = "none"
             /\ eventReqs' = eventReqs
             /\ \A q \in ReqIds \ {r} : req'[q] = req[q]]_vars

\* C5 witness: a request answered 200 by the route handler itself, after the
\* resource was mutated.
C5_Witness ==
  \E r \in ReqIds :
    /\ req[r].state = "ANSWERED"
    /\ req[r].sent # <<>>
    /\ req[r].sent[1].status = 200
    /\ req[r].sent[1].score > 0
    /\ req[r].timer = "none"

\* C6: the timeout of a registered wait removes it from the waiter set and
\* answers 408 'Request timed out'; no later mutation sends it anything.
C6_Timeout ==
  [][\A r \in ReqIds :
       /\ (req[r].state = "REGISTERED" /\ req[r].timer = "pending"
             /\ req'[r].timer = "fired") =>
            /\ r \notin eventReqs'[req[r].eventId]
            /\ req'[r].state = "RESOLVED_BY_TIMEOUT"
            /\ req'[r].sent =
                 <<Response(408, "Request timed out", NoItem)>>
       /\ req[r].state = "RESOLVED_BY_TIMEOUT" =>
            /\ req'[r].sent = req[r].sent
            /\ \A e \in Events : r \notin eventReqs'[e]]_vars

\* C6 witness: a wait answered 408 whose resource was mutated afterwards (a
\* mutation before the timeout would have answered it).
C6_Witness ==
  \E r \in Waits :
    /\ req[r].state = "RESOLVED_BY_TIMEOUT"
    /\ Statuses(r) = {408}
    /\ db[req[r].eventId].updatedAt >= req[r].deadline
    /\ db[req[r].eventId].score > 0

\* C7: a wait cancelled by the connection's close is in no waiter set, its
\* timer is cleared, and it never has a response, whatever mutations follow.
C7_Cancellation ==
  \A r \in ReqIds :
    req[r].state = "CANCELLED" =>
      /\ req[r].sent = <<>>
      /\ req[r].timer = "cleared"
      /\ \A e \in Events : r \notin eventReqs[e]

\* C7 witness: a cancelled wait whose resource was mutated at or after the
\* wait's deadline.
C7_Witness ==
  \E r \in Waits :
    /\ req[r].state = "CANCELLED"
    /\ db[req[r].eventId].updatedAt >= req[r].deadline
    /\ db[req[r].eventId].score > 0

\* C8: every mutation's updatedAt is strictly greater than the resource's
\* previous updatedAt.
C8_MonotonicUpdatedAt ==
  [][\A e \in Events :
       db'[e] # db[e] => db'[e].updatedAt > db[e].updatedAt]_vars

\* C9: a request whose eventId names no resource is answered 404 'Event not
\* found', and has no timer and no place in a waiter set.
C9_UnknownResource ==
  \A r \in ReqIds :
    (/\ req[r].state # "unused"
     /\ req[r].eventId \notin Events \cup {NoEventId}
     /\ req[r].lu.kind # "undef") =>
      /\ req[r].sent = <<Response(404, "Event not found", NoItem)>>
      /\ req[r].timer = "none"
      /\ \A e \in Events : r \notin eventReqs[e]

\* C10: a request for an existing resource whose last_updated is no number
\* is rejected at once with a 4xx/5xx response, and has no timer and no
\* place in a waiter set.
C10_MalformedLastSeen ==
  \A r \in ReqIds :
    (/\ req[r].state # "unused"
     /\ req[r].eventId \in Events
     /\ req[r].lu.kind = "nan") =>
      /\ req[r].state = "ANSWERED"
      /\ req[r].sent # <<>>
      /\ req[r].sent[1].status \in 400..599
      /\ req[r].timer = "none"
      /\ \A e \in Events : r \notin eventReqs[e]

\* C11: between event-loop steps a request is in no waiter set but that of
\* its own eventId, it is there exactly while it is REGISTERED, a member has
\* no response yet and a pending timeout, and a pending timeout belongs to
\* a member.
C11_WaiterRegistry ==
  \A r \in ReqIds :
    /\ \A e \in Events : r \in eventReqs[e] => e = req[r].eventId
    /\ (\E e \in Events : r \in eventReqs[e]) <=> req[r].state = "REGISTERED"
    /\ (\E e \in Events : r \in eventReqs[e]) =>
         req[r].sent = <<>> /\ req[r].timer = "pending"
    /\ req[r].timer = "pending" => \E e \in Events : r \in eventReqs[e]

\* ----------------------------------------------------------- token bucket
\* A check of the token bucket by c: one more of its checks is on record.
TBChecked(c) == tbLast'[c].n = tbLast[c].n + 1

\* C12: every bucket there is holds at least no token and at most capacity
\* tokens, whatever checks and status reads came before, the clock never
\* going back.
C12_TokenBound ==
  \A c \in Clients :
    buckets[c].present =>
      /\ 0 <= buckets[c].tokens
      /\ buckets[c].tokens <= TBCapacity * 1000

\* A bucket emptied by checks, and a bucket that was checked, then read
\* after more time than it takes to fill it up again.
C12_Witness ==
  /\ \E c \in Clients : buckets[c].present /\ buckets[c].tokens = 0
  /\ \E c \in Clients :
       /\ buckets[c].present
       /\ buckets[c].tokens = TBCapacity * 1000
       /\ tbLast[c].allowed
       /\ buckets[c].lastRefill >= tbLast[c].time + 2000

\* C13: of the checks a client makes at the instant its bucket is created,
\* the first capacity are allowed with remaining capacity-1 down to 0, the
\* next one is denied with remaining 0 and retryAfter ceil(1/refillRate),
\* and the check made retryAfter seconds after that denial is allowed.
C13_BurstAndRecovery ==
  [][\A c \in Clients :
       TBChecked(c) =>
         LET old == tbLast[c]
             new == tbLast'[c]
         IN  /\ (new.time = new.created /\ new.n <= TBCapacity) =>
                  new.allowed /\ new.remaining = TBCapacity - new.n
             /\ (new.time = new.created /\ new.n = TBCapacity + 1) =>
                  /\ ~new.allowed
                  /\ new.remaining = 0
                  /\ new.retryAfter = CeilDiv(1, TBRefillRate)
             /\ ( /\ old.n = TBCapacity + 1
                  /\ old.time = old.created
                  /\ new.time = old.time + old.retryAfter * 1000 ) =>
                  new.allowed]_allvars

\* The check after the burst and its denial, made retryAfter seconds later.
C13_Witness ==
  \E c \in Clients :
    /\ tbLast[c].n = TBCapacity + 2
    /\ tbLast[c].time = tbLast[c].created + 1000
    /\ tbLast[c].allowed

\* ----------------------------------------------------------- fixed window
\* A check of the fixed window by c: one more of its checks is on record.
FWChecked(c) == fwLast'[c].n = fwLast[c].n + 1

\* A read of the fixed-window statistics: no check, the clock stands.
FWStatsRead == clock' = clock /\ \A c \in FWClients : ~FWChecked(c)

\* C14: count never exceeds maxRequests, and of the checks a client makes
\* in one window the first maxRequests are allowed and every further one
\* is denied with retryAfter = ceil((windowStart + windowMs - now) / 1000),
\* now being the reading allow() takes.
C14_FixedWindowAdmission ==
  /\ [](\A c \in FWClients : windows[c].count <= FWMaxRequests)
  /\ [][\A c \in FWClients :
          FWChecked(c) =>
            LET new == fwLast'[c]
            IN  IF new.k <= FWMaxRequests
                THEN new.allowed /\ new.remaining = FWMaxRequests - new.k
                ELSE /\ ~new.allowed
                     /\ new.remaining = 0
                     /\ new.retryAfter =
                          CeilDiv(windows'[c].windowStart + FWWindowMs
                                    - new.time, 1000)]_allvars

\* A seventh check in a window, denied with a wait of 11 seconds.
C14_Witness ==
  \E c \in FWClients :
    /\ fwLast[c].k = FWMaxRequests + 1
    /\ ~fwLast[c].allowed
    /\ fwLast[c].retryAfter = 11
    /\ windows[c].count = FWMaxRequests

SWChecked(c) == swLast'[c].n = swLast[c].n + 1

\* The client's log before a check, empty when it has made none.
SWLog(c) == IF swWindows[c].present THEN swWindows[c].requests ELSE <<>>

\* The timestamps of q that are not older than t - windowMs.
SWWithin(q, t) ==
  LET In(timestamp) == timestamp >= t - SWWindowMs IN SelectSeq(q, In)

\* C17: a client whose requests arrive windowMs / maxRequests apart is
\* never denied.
C17_EvenSpacing ==
  \A c \in SWClients :
    (swLast[c].n >= 1 /\ swLast[c].even) => swLast[c].allowed

\* C18: no maxRequests + 1 admitted requests of a client have timestamps in
\* one interval [t - windowMs, t].
C18_AccuracyBound ==
  \A c \in SWClients :
    LET q == swLast[c].recent
    IN  Len(q) = SWMaxRequests + 1 =>
          q[SWMaxRequests + 1] - q[1] > SWWindowMs

\* C19: a check that arrives at now purges exactly the timestamps older
\* than now - windowMs, one equal to now - windowMs staying, so that it
\* decides on the admitted requests of [now - windowMs, now]; it admits iff
\* these are fewer than maxRequests, logs its own reading of the clock and
\* returns remaining = maxRequests - count - 1.
C19_Purge ==
  [][\A c \in SWClients :
       SWChecked(c) =>
         LET new == swLast'[c]
             log == swWindows'[c].requests
             decided == IF new.allowed THEN SubSeq(log, 1, Len(log) - 1)
                        ELSE log
         IN  /\ decided = SWWithin(SWLog(c), clock)
             /\ decided = SWWithin(swLast[c].recent, clock)
             /\ new.allowed <=> Len(decided) < SWMaxRequests
             /\ new.allowed =>
                  /\ log[Len(log)] = new.time
                  /\ new.remaining = SWMaxRequests - Len(decided) - 1]_allvars

\* ------------------------------------------------------- the four limiters
\* A response of the distributed limiter to c: one more check on record.
DRChecked(c) == drLast'[c].n = drLast[c].n + 1

\* A check denied with retryAfter r at time t0 and a retry at time t less
\* than r - 1 seconds later.
Early(t0, r, t) == t < t0 + (r - 1) * 1000

\* The retries the in-memory limiters get before retryAfter - 1 seconds
\* have passed are denied.
EarlyRetryDenied ==
  /\ TBOn => \A c \in Clients :
       (TBChecked(c) /\ tbLast[c].n > 0 /\ ~tbLast[c].allowed
          /\ Early(tbLast[c].time, tbLast[c].retryAfter, tbLast'[c].time))
         => ~tbLast'[c].allowed
  /\ FWOn => \A c \in FWClients :
       (FWChecked(c) /\ fwLast[c].n > 0 /\ ~fwLast[c].allowed
          /\ Early(fwLast[c].time, fwLast[c].retryAfter, fwLast'[c].time))
         => ~fwLast'[c].allowed
  /\ SWOn => \A c \in SWClients :
       (SWChecked(c) /\ swLast[c].n > 0 /\ ~swLast[c].allowed
          /\ Early(swLast[c].time, swLast[c].retryAfter, swLast'[c].arr))
         => ~swLast'[c].allowed

\* A retry of the distributed limiter made and answered before
\* retryAfter - 1 seconds have passed.
DREarlyRetry(c) ==
  /\ DRChecked(c)
  /\ drLast[c].n > 0
  /\ drLast[c].outcome = "denied"
  /\ Early(drLast[c].time, drLast[c].retryAfter, clock)

DRQuiet(c) ==
  \A p \in DOMAIN drReq : drReq[p].pc = "idle" \/ drReq[p].client # c

\* C21: with the store reachable throughout and answering at once, every
\* check of a client gets
\* from slidingWindowRedis the outcome and the remaining count that
\* SlidingWindow.allow gives for the same check times, limit and window.
C21_EqualsSlidingWindow ==
  \A c \in DRClients :
    (drLast[c].n > 0 /\ drLast[c].clean /\ drLast[c].prompt) =>
      /\ (drLast[c].outcome = "allowed") = drLast[c].refAllowed
      /\ drLast[c].remaining = drLast[c].refRemaining

\* C22: between requests, with the store reachable throughout and
\* answering at once, the sorted set of a client holds the entries of its admitted requests and no other;
\* what a denied request inserted is gone.
C22_DeniedLeavesNoTrace ==
  \A c \in DRClients :
    (drLast[c].clean /\ drLast[c].prompt /\ DRQuiet(c)) =>
      drStore[c].scores = drLast[c].admitted

\* C23: with any number of processes at one store, the requests of a client
\* that were admitted never number more than maxRequests within one window:
\* of any maxRequests + 1 admitted timestamps, the first and the last are
\* windowMs or more apart.
C23_AdmittedPerWindow ==
  \A c \in DRClients :
    LET q == drLast[c].admitted
    IN  \A i \in 1..Len(q) :
          i + DRMaxRequests <= Len(q) =>
            q[i + DRMaxRequests] - q[i] >= DRWindowMs

\* ------------------------------------------------ the answers on the wire
\* C24: a request that reaches a process whose availability flag is down is
\* answered 503 at once: the route handler does not run, no store command
\* is sent and the store stays as it is.
C24_Unavailable ==
  [][\A p \in DRProcs :
       (~drAvail[p] /\ drReq[p].pc = "idle") =>
         /\ drReq'[p].pc = "idle"
         /\ \A c \in DRClients :
              DRChecked(c) =>
                /\ drLast'[c].http.status = 503
                /\ drLast'[c].http.next = 0
                /\ drStore' = drStore]_allvars

\* A client whose requests the store has counted is answered 503.
C24_Witness ==
  \E c \in DRClients :
    /\ drLast[c].http.status = 503
    /\ drStore[c].scores # <<>>
    /\ drLast[c].prev = "allowed"

\* C25: a request during which a store command failed is allowed with all
\* of the limit remaining; the route handler runs and the answer is neither
\* 429 nor 503.
C25_FailOpen ==
  \A c \in DRClients :
    (drLast[c].n > 0 /\ drLast[c].outcome = "failopen") =>
      /\ drLast[c].remaining = DRMaxRequests
      /\ drLast[c].http.remaining = DRMaxRequests
      /\ drLast[c].http.next = 1
      /\ drLast[c].http.status \notin {429, 503}

\* A store command fails for the request that follows a denied one.
C25_Witness ==
  \E c \in DRClients :
    /\ drLast[c].outcome = "failopen"
    /\ drLast[c].prev = "denied"
    /\ Len(drStore[c].scores) > DRMaxRequests

\* The last answer of a limiter, with the result it was made from.
Gated(allowed, denied, retryAfter, http) ==
  /\ allowed => http.next = 1
  /\ denied =>
       /\ http.next = 0
       /\ http.status = 429
       /\ {"Retry-After", "X-RateLimit-Remaining"} \subseteq http.headers
       /\ http.retryAfter = retryAfter
       /\ http.remaining = 0

\* C26: each of the four middlewares calls next once for a request its
\* limiter allowed and not at all for one it denied, which is answered 429
\* with Retry-After = retryAfter and X-RateLimit-Remaining = 0.
C26_AdmissionGating ==
  /\ \A c \in DOMAIN tbLast : tbLast[c].n > 0 =>
       Gated(tbLast[c].allowed, ~tbLast[c].allowed, tbLast[c].retryAfter,
             tbLast[c].http)
  /\ \A c \in DOMAIN fwLast : fwLast[c].n > 0 =>
       Gated(fwLast[c].allowed, ~fwLast[c].allowed, fwLast[c].retryAfter,
             fwLast[c].http)
  /\ \A c \in DOMAIN swLast : swLast[c].n > 0 =>
       Gated(swLast[c].allowed, ~swLast[c].allowed, swLast[c].retryAfter,
             swLast[c].http)
  /\ \A c \in DOMAIN drLast : drLast[c].n > 0 =>
       Gated(drLast[c].outcome \in {"allowed", "failopen"},
             drLast[c].outcome = "denied", drLast[c].retryAfter,
             drLast[c].http)

\* The token bucket denies a request after it allowed one.
C26_Witness ==
  \E c \in DOMAIN tbLast :
    /\ tbLast[c].n > TBCapacity
    /\ ~tbLast[c].allowed
    /\ tbLast[c].http.status = 429
    /\ tbLast[c].http.retryAfter = 1

\* C27: every answer of the four endpoints carries X-RateLimit-Limit,
\* X-RateLimit-Remaining and X-RateLimit-Algorithm, the remaining count
\* being at least 0 and at most the limit.
C27_HeadersOnEveryCall ==
  LET Carries(http) ==
        /\ LimitHeaders \subseteq http.headers
        /\ 0 <= http.remaining
        /\ http.remaining <= http.limit
  IN  /\ \A c \in DOMAIN tbLast : tbLast[c].n > 0 => Carries(tbLast[c].http)
      /\ \A c \in DOMAIN fwLast : fwLast[c].n > 0 => Carries(fwLast[c].http)
      /\ \A c \in DOMAIN swLast : swLast[c].n > 0 => Carries(swLast[c].http)
      /\ \A c \in DOMAIN drLast : drLast[c].n > 0 => Carries(drLast[c].http)

\* ------------------------------------------------- status reads, isolation
\* C28: status reads change no later answer. For the fixed window: every
\* check is allowed or denied, and told to wait, just as it is when the
\* same checks are made with no status read among them.
C28_StatsReadsChangeNothing ==
  \A c \in DOMAIN fwLast :
    fwLast[c].n > 0 =>
      /\ fwLast[c].allowed = fwLast[c].qAllowed
      /\ fwLast[c].retryAfter = fwLast[c].qRetryAfter

\* C29: a check by one client leaves what an in-memory limiter holds of
\* every other client as it is, and what a client is answered depends on
\* the times of its own checks alone: whatever else is asked of the server
\* in between, the fixed window answers it as it answers the same checks
\* made with nothing in between.
C29_IsolationAndDeterminism ==
  /\ [][/\ \A a, b \in DOMAIN tbLast :
             (a # b /\ TBChecked(a)) => buckets'[b] = buckets[b]
        /\ \A a, b \in DOMAIN fwLast :
             (a # b /\ FWChecked(a)) => windows'[b] = windows[b]
        /\ \A a, b \in DOMAIN swLast :
             (a # b /\ SWChecked(a)) => swWindows'[b] = swWindows[b]]_allvars
  /\ [](\A b \in DOMAIN fwLast :
          fwLast[b].n > 0 =>
            /\ fwLast[b].allowed = fwLast[b].qAllowed
            /\ fwLast[b].remaining = fwLast[b].qRemaining)

\* ------------------------------------------------ the long-polling client
\* C30: whatever is clicked and whenever the server answers, at most one
\* request per event id waits for the server, so that no more requests wait
\* than there are event ids.
C30_OneConnectionPerEvent ==
  /\ \A e \in DOMAIN polls : Cardinality(InFlight(e)) <= 1
  /\ activeConnections <= Cardinality(DOMAIN polls)

\* ----------------------------------------------- the frame of a mutation
\* The step is the emitter's callback for resource e.
MutationOf(e) ==
  \/ db'[e] # db[e]
  \/ emitterDue'[e] # emitterDue[e]
  \/ \E r \in eventReqs[e] : req'[r].state = "RESOLVED_BY_DATA"

\* C36: the mutation of a resource leaves every other resource as it is:
\* its item, its waiter set, and each wait in that set with its timer
\* pending and no response sent.
C36_MutationFrame ==
  [][\A e \in Events :
       MutationOf(e) =>
         \A x \in Events \ {e} :
           /\ db'[x] = db[x]
           /\ eventReqs'[x] = eventReqs[x]
           /\ \A r \in eventReqs[x] :
                /\ req'[r] = req[r]
                /\ req'[r].timer = "pending"
                /\ req'[r].sent = <<>>]_allvars

\* One resource was mutated and its wait answered while the wait of the
\* other resource stays registered.
C36_Witness ==
  \E e \in Events, x \in Events, r \in ReqIds, q \in ReqIds :
    /\ e # x
    /\ req[r].eventId = e
    /\ req[r].state = "RESOLVED_BY_DATA"
    /\ q \in eventReqs[x]
    /\ req[q].timer = "pending"
    /\ req[q].sent = <<>>

\* ------------------------------------------- token bucket: refill and rate
\* Times ahead at which a bucket is looked at, in milliseconds.
TBAhead == {0, 250, 500, 750, 1000, 5000}

\* What the bucket b holds when it is refilled d milliseconds after t.
TBTokensAt(b, t, d) == TBRefill(b, t + d).tokens

\* The step lets client c through.
TBAdmitted(c) == TBChecked(c) /\ tbLast'[c].allowed

C39_LongRunRate ==
  \A c \in DOMAIN tbLast : tbLast[c].burst <= TBCapacity * 1000

\* A client was let through capacity + 1 times within a second of its
\* first request and is denied then.
C39_Witness ==
  \E c \in DOMAIN tbLast :
    /\ tbLast[c].burst = TBCapacity * 1000
    /\ tbLast[c].admitAt >= tbLast[c].created + 1000
    /\ tbLast[c].n = TBCapacity + 2
    /\ ~tbLast[c].allowed

\* --------------------------------------------------- the wait of a denial
\* C38: every denial of FixedWindow.allow and of SlidingWindow.allow
\* carries retryAfter >= 1, the clock being read once by the reset or purge
\* and once more by the admission.
C38_PositiveRetryAfter ==
  /\ FWOn => \A c \in FWClients :
       (fwLast[c].n > 0 /\ ~fwLast[c].allowed) => fwLast[c].retryAfter >= 1
  /\ SWOn => \A c \in SWClients :
       (swLast[c].n > 0 /\ ~swLast[c].allowed) => swLast[c].retryAfter >= 1

\* ------------------------------------------------ fixed window: worst case
\* C35: of the requests of a client that arrive in one stretch of windowMs,
\* the fixed window lets through at most 2 * maxRequests.
C35_WorstCase ==
  \A c \in FWClients :
    fwLast[c].slips <= FWMaxSlips =>
      Len(fwLast[c].admitted) <= 2 * FWMaxRequests

\* maxRequests requests at the end of one window and maxRequests at the
\* start of the next are let through, and the next request is denied.
C35_Witness ==
  \E c \in FWClients :
    /\ Len(fwLast[c].admitted) = 2 * FWMaxRequests
    /\ fwLast[c].n = 2 * FWMaxRequests + 1
    /\ ~fwLast[c].allowed

\* ------------------------------------------------- waiting out a denial
\* C37: for each of the four limiters, a client that was denied with
\* retryAfter r and makes its next check, further denied attempts apart, r
\* seconds after that denial or later is let through (by the distributed
\* limiter: is not denied).
C37_WaitSuffices ==
  [][/\ TBOn => \A c \in Clients :
          (TBChecked(c) /\ tbLast[c].due > 0 /\ clock >= tbLast[c].due)
            => tbLast'[c].allowed
     /\ FWOn => \A c \in FWClients :
          (FWChecked(c) /\ fwLast[c].due > 0 /\ clock >= fwLast[c].due)
            => fwLast'[c].allowed
     /\ SWOn => \A c \in SWClients :
          (SWChecked(c) /\ swLast[c].due > 0 /\ clock >= swLast[c].due)
            => swLast'[c].allowed
     /\ DROn => \A c \in DRClients :
          ( /\ DRChecked(c)
            /\ drLast[c].due > 0
            /\ drLast'[c].time >= drLast[c].due )
            => drLast'[c].outcome # "denied"]_allvars

\* ---------------------------------------------- SSE: the manual trigger
\* A POST /trigger-notification request is answered in this step.
SSETriggered == sseTrigger'.n = sseTrigger.n + 1

\* C31: a POST /trigger-notification request makes the SSE backend write
\* a 'notification' event to every client connected to /events.
C31_ManualTrigger ==
  [][SSETriggered =>
       \A k \in sseClients :
         sseStreams'[k] = Append(sseStreams[k], "notification")]_allvars

\* ------------------------------------------------ publisher: its cadence
\* C32: whatever 'ready' events and publish failures there are, at most
\* one timer of messagePublisher is pending.
C32_SingleTimer == Cardinality(PSTimers) <= 1

\* --------------------------------------------- short polling: the items
\* The strings that are written as a number.
SPNumeric(s) == s \in {"0", "1", "7"}

\* A GET /items/:id/status is answered in this step.
SPAnswered == spLast' # spLast /\ spLast'.route \in SPParams

\* The setTimeout of item id has not run yet.
SPPending(id) == \E n \in 1..Len(spTimers) : spTimers[n].id = id

\* C33: POST /items gives the new item an id no earlier item has and the
\* status 'creating'; the status changes once, to 'Success', when the
\* item's delay is over, and is not reported as 'Success' before; GET
\* /items/:id/status changes no item, answers 404 to a numeric id that
\* names no item and 400 to an id that is not numeric.
C33_ItemLifecycle ==
  [][/\ next_id' # next_id =>
          /\ next_id \notin DOMAIN items
          /\ DOMAIN items' = DOMAIN items \cup {next_id}
          /\ items'[next_id].status = "creating"
          /\ \A id \in DOMAIN items : items'[id] = items[id]
     /\ \A id \in DOMAIN items :
          items'[id].status # items[id].status =>
            /\ items[id].status = "creating"
            /\ items'[id].status = "Success"
            /\ \E n \in 1..Len(spTimers) :
                 spTimers[n].id = id /\ spTimers[n].due <= spClock
            /\ ~SPPending(id)'
     /\ SPAnswered =>
          /\ items' = items
          /\ ~SPNumeric(spLast'.route) => spLast'.code = 400
          /\ ( /\ SPNumeric(spLast'.route)
               /\ SPNumber(spLast'.route).value \notin DOMAIN items )
               => spLast'.code = 404
          /\ spLast'.status = "Success" => ~SPPending(spLast'.id)]_allvars

====
